---- MODULE Spec2Model ----
(***************************************************************************)
(* mastodon_digest: the scorers (scorers.py), the percentile threshold     *)
(* (thresholds.py), the post wrapper (models.py) and the account-name      *)
(* helper (api.py).                                                        *)
(*                                                                         *)
(* Numbers.  Scores are Python floats, IEEE binary64: each operation is    *)
(* rounded to the nearest float, ties to even.  A number is modelled as    *)
(* s * m * 2^e with m a natural of any size, so that the 53 bits of a      *)
(* float and the exact sums and products the claims speak of are both      *)
(* there.  math.sqrt is the float nearest to the root; np.log and np.exp   *)
(* are taken as the floats nearest to the logarithm and the exponential    *)
(* (the C library agrees on every number the model draws), and             *)
(* scipy.stats.gmean is exp(mean(log(xs))) as scipy computes it.           *)
(*                                                                         *)
(* Strings.  An account name and a post body are sequences of tokens, so   *)
(* that splitting at "@", stripping markup, lower-casing and \w+ matching  *)
(* are computed, not assumed.                                              *)
(***************************************************************************)
EXTENDS Integers, Sequences, FiniteSets

VARIABLES scorer, posts, scored, selected, boosts, threshold, env, runs,
          fetching, startup, queue

vars == <<scorer, posts, scored, selected, boosts, threshold, env, runs,
          fetching, startup, queue>>

\* the state of a pipeline run (run.py), of the page loop (api.py), of the
\* start of the program (run.py, __main__) and of the re-share queue (api.py)
others == <<boosts, threshold, env, runs, fetching, startup, queue>>

(***************************************************************************)
(* Bounds of the model                                                     *)
(***************************************************************************)
\* longest batch of Spec
MaxPosts == 3

(***************************************************************************)
(* The counts the posts of the model carry                                 *)
(***************************************************************************)
\* reblogs, favourites and replies; one post of Spec has 36 favourites
Counts == {0, 63}

\* -1: the follower count is hidden
Followers == {-1, 0, 1, 4, 16}

(***************************************************************************)
(* Natural numbers of any size: a sequence of limbs, the least first, each *)
(* in 0 .. Base - 1, the last not 0; <<>> is 0.  The operators avoid deep  *)
(* recursion: carries are found by looking back, loops halve their count.  *)
(***************************************************************************)
Abs(x) == IF x < 0 THEN -x ELSE x

Max(x, y) == IF x >= y THEN x ELSE y

Range(f) == {f[i] : i \in DOMAIN f}

MaxOf(S) == CHOOSE x \in S : \A y \in S : y <= x

RECURSIVE SumSeq(_)
SumSeq(xs) == IF xs = <<>> THEN 0 ELSE Head(xs) + SumSeq(Tail(xs))

Base == 2^15

\* bits in a limb
LimbBits == CHOOSE n \in 0..30 : 2^n = Base

Limb(a, i) == IF 1 <= i /\ i <= Len(a) THEN a[i] ELSE 0

\* the place of the last limb of a that is not 0, 0 when there is none
NTop(a) ==
    IF \A i \in DOMAIN a : a[i] = 0 THEN 0
    ELSE CHOOSE i \in DOMAIN a : a[i] # 0 /\ \A j \in (i + 1)..Len(a) : a[j] = 0

NTrim(a) == SubSeq(a, 1, NTop(a))

\* the natural k < Base * Base as limbs
NFromInt(k) == NTrim(<<k % Base, k \div Base>>)

\* the carry into place k of the digits e, each at most 2 * Base - 2: a place
\* before k makes one and every place between passes it on
CarryInto(e, k) ==
    IF \E j \in 1..(k - 1) :
           e[j] >= Base /\ \A l \in (j + 1)..(k - 1) : e[l] = Base - 1
    THEN 1 ELSE 0

NResolve(e) ==
    NTrim([k \in 1..(Len(e) + 1) |-> (Limb(e, k) + CarryInto(e, k)) % Base])

NAdd(a, b) ==
    NResolve([k \in 1..Max(Len(a), Len(b)) |-> Limb(a, k) + Limb(b, k)])

\* the borrow from place k of the differences d, each in 1 - Base .. Base - 1
BorrowFrom(d, k) ==
    IF \E j \in 1..(k - 1) : d[j] < 0 /\ \A l \in (j + 1)..(k - 1) : d[l] = 0
    THEN 1 ELSE 0

NSettle(d) ==
    NTrim([k \in 1..Len(d) |-> (d[k] - BorrowFrom(d, k) + Base) % Base])

\* a - b for a >= b
NSub(a, b) == NSettle([k \in 1..Len(a) |-> a[k] - Limb(b, k)])

\* -1, 0, 1 as a < b, a = b, a > b
NCmpAt(a, b, i) == IF Limb(a, i) < Limb(b, i) THEN -1 ELSE 1

NCmpIn(a, b, differ) == IF differ = {} THEN 0 ELSE NCmpAt(a, b, MaxOf(differ))

NCmp(a, b) ==
    NCmpIn(a, b, {i \in 1..Max(Len(a), Len(b)) : Limb(a, i) # Limb(b, i)})

\* the products of limbs of a and b that fall in column k
Column(a, b, k) == [i \in 1..Len(a) |-> a[i] * Limb(b, k + 1 - i)]

ColumnLow(col) == SumSeq([i \in DOMAIN col |-> col[i] % Base])

ColumnHigh(col) == SumSeq([i \in DOMAIN col |-> col[i] \div Base])

\* the digits c, each below Base * Base, as limbs
NCarried(c) ==
    NResolve([k \in 1..(Len(c) + 1) |-> (Limb(c, k) % Base) + (Limb(c, k - 1) \div Base)])

NMulLong(a, b) ==
    NCarried([k \in 1..(Len(a) + Len(b)) |->
                 ColumnLow(Column(a, b, k)) + ColumnHigh(Column(a, b, k - 1))])

NMul(a, b) ==
    IF a = <<1>> THEN b
    ELSE IF b = <<1>> THEN a
    ELSE IF Len(a) <= Len(b) THEN NMulLong(a, b) ELSE NMulLong(b, a)

NMulSmall(a, k) == NMul(a, NFromInt(k))

\* a divided by k, 0 < k < Base: the quotient q and the remainder r
DivResult(q, r) == [q |-> q, r |-> r]

\* the remainder of the limbs of a from place i on
RECURSIVE NRemFrom(_, _, _)
NRemFrom(a, k, i) ==
    IF i > Len(a) THEN 0 ELSE (NRemFrom(a, k, i + 1) * Base + a[i]) % k

NDivSmall(a, k) ==
    DivResult(NTrim([i \in 1..Len(a) |-> (NRemFrom(a, k, i + 1) * Base + a[i]) \div k]),
              NRemFrom(a, k, 1))

\* a * 2^s, limbs moved by q places and bits by r
NShlBy(a, q, r) ==
    NTrim([i \in 1..(Len(a) + q + 1) |->
              (Limb(a, i - q) % 2^(LimbBits - r)) * 2^r
              + (Limb(a, i - q - 1) \div 2^(LimbBits - r))])

NShl(a, s) == NShlBy(a, s \div LimbBits, s % LimbBits)

\* floor(a / 2^s)
NShrBy(a, q, r) ==
    NTrim([i \in 1..(Len(a) - q) |->
              (Limb(a, i + q) \div 2^r)
              + (Limb(a, i + q + 1) % 2^r) * 2^(LimbBits - r)])

NShr(a, s) == NShrBy(a, s \div LimbBits, s % LimbBits)

\* the number of bits of a limb x, and of a
LimbBitLen(x) == Cardinality({n \in 0..(LimbBits - 1) : 2^n <= x})

NBitLen(a) ==
    IF a = <<>> THEN 0 ELSE LimbBits * (Len(a) - 1) + LimbBitLen(a[Len(a)])

\* the number of 0 bits at the low end of a limb x > 0, and of a > 0
LimbLowZeros(x) == Cardinality({n \in 1..LimbBits : x % 2^n = 0})

NLowZerosAt(a, i) == LimbBits * (i - 1) + LimbLowZeros(a[i])

NLowZeros(a) ==
    NLowZerosAt(a, CHOOSE i \in DOMAIN a : a[i] # 0 /\ \A j \in 1..(i - 1) : a[j] = 0)

NIsOdd(a) == a # <<>> /\ a[1] % 2 = 1

\* at most cap steps of StepOf from the state st, none once st.left is 0
RECURSIVE Iterate(_, _, _)
Iterate(StepOf(_), cap, st) ==
    IF st.left = 0 THEN st
    ELSE IF cap = 1 THEN StepOf(st)
    ELSE Iterate(StepOf, cap \div 2, Iterate(StepOf, cap - cap \div 2, st))

(***************************************************************************)
(* Numbers: s * m * 2^e with s the sign (-1, 0, 1), m a natural that is    *)
(* odd, e an integer; 0 is [s |-> 0, m |-> <<>>, e |-> 0].  A Python float *)
(* is a number whose m has at most Precision bits (the range of the        *)
(* exponent is not modelled: no overflow, no subnormal numbers); a Python  *)
(* int is a number with e >= 0.  -0.0 is not told from 0.0.                *)
(***************************************************************************)
\* bits in the significand of a float
Precision == 53

Zero == [s |-> 0, m |-> <<>>, e |-> 0]

\* s * m * 2^e for any natural m, z the 0 bits at its low end
DyOdd(s, m, e, z) == [s |-> s, m |-> NShr(m, z), e |-> e + z]

Dy(s, m, e) ==
    IF s = 0 \/ m = <<>> THEN Zero ELSE DyOdd(s, m, e, NLowZeros(m))

\* the int k, |k| < Base * Base
RInt(k) == Dy(IF k < 0 THEN -1 ELSE 1, NFromInt(Abs(k)), 0)

XNeg(a) == [a EXCEPT !.s = -@]

\* a * b, exactly
XMul(a, b) ==
    IF a.s = 0 \/ b.s = 0 THEN Zero
    ELSE [s |-> a.s * b.s, m |-> NMul(a.m, b.m), e |-> a.e + b.e]

\* the sum of sa * ma * 2^e and sb * mb * 2^e
XAddAligned(sa, ma, sb, mb, e) ==
    IF sa = sb THEN Dy(sa, NAdd(ma, mb), e)
    ELSE IF NCmp(ma, mb) = 0 THEN Zero
    ELSE IF NCmp(ma, mb) > 0 THEN Dy(sa, NSub(ma, mb), e)
    ELSE Dy(sb, NSub(mb, ma), e)

\* a + b, exactly
XAdd(a, b) ==
    IF a.s = 0 THEN b
    ELSE IF b.s = 0 THEN a
    ELSE IF a.e <= b.e
         THEN XAddAligned(a.s, a.m, b.s, NShl(b.m, b.e - a.e), a.e)
         ELSE XAddAligned(a.s, NShl(a.m, a.e - b.e), b.s, b.m, b.e)

XSub(a, b) == XAdd(a, XNeg(b))

\* the place of the highest bit of a # 0
Top(a) == a.e + NBitLen(a.m)

\* |a| < |b| for a, b # 0
MagLt(a, b) ==
    IF Top(a) # Top(b) THEN Top(a) < Top(b)
    ELSE IF a.e <= b.e THEN NCmp(a.m, NShl(b.m, b.e - a.e)) < 0
    ELSE NCmp(NShl(a.m, a.e - b.e), b.m) < 0

RLt(a, b) ==
    IF a = b THEN FALSE
    ELSE IF a.s # b.s THEN a.s < b.s
    ELSE IF a.s > 0 THEN MagLt(a, b)
    ELSE MagLt(b, a)

RLe(a, b) == a = b \/ RLt(a, b)

RGe(a, b) == RLe(b, a)

RGt(a, b) == RLt(b, a)

\* python truthiness of a number
Truthy(a) == a.s # 0

\* x cut to Precision bits, d > 0 bits dropped, t its first Precision + 1
\* bits: up when the first bit dropped is 1, unless it alone is dropped and
\* the bit kept before it is 0 (a tie goes to the even neighbour)
FlUp(d, t) == NIsOdd(t) /\ (d > 1 \/ NIsOdd(NShr(t, 1)))

FlCut(x, d, t) ==
    Dy(x.s, IF FlUp(d, t) THEN NAdd(NShr(t, 1), <<1>>) ELSE NShr(t, 1), x.e + d)

FlDrop(x, d) == FlCut(x, d, NShr(x.m, d - 1))

\* the float nearest to the number x, the even one of two equally near
Fl(x) ==
    IF NBitLen(x.m) <= Precision THEN x
    ELSE FlDrop(x, NBitLen(x.m) - Precision)

\* float multiplication, addition, subtraction
FMul(a, b) == Fl(XMul(a, b))

FAdd(a, b) == Fl(XAdd(a, b))

FSub(a, b) == Fl(XSub(a, b))

\* the natural q followed by a last bit that is 1 iff something remains
Sticky(q, remains) == NAdd(NShl(q, 1), IF remains THEN <<1>> ELSE <<>>)

\* a / b for a divisor whose m is one limb
FDivSmallBy(a, b, k, qr) ==
    Fl(Dy(a.s * b.s, Sticky(qr.q, qr.r # 0), a.e - b.e - k - 1))

FDivSmall(a, b, k) == FDivSmallBy(a, b, k, NDivSmall(NShl(a.m, k), b.m[1]))

\* one bit of the quotient of st.r by den, st.r < 2 * den
DivStep(st, den) ==
    IF NCmp(st.r, den) >= 0
    THEN [q |-> NAdd(NShl(st.q, 1), <<1>>), r |-> NShl(NSub(st.r, den), 1),
          left |-> st.left - 1]
    ELSE [q |-> NShl(st.q, 1), r |-> NShl(st.r, 1), left |-> st.left - 1]

\* the first bits of num / den, num and den of the same length in bits
DivBits(num, den, bits) ==
    LET StepOf(st) == DivStep(st, den)
    IN  Iterate(StepOf, 64, [q |-> <<>>, r |-> num, left |-> bits])

FDivLongBy(a, b, shift, st) ==
    Fl(Dy(a.s * b.s, Sticky(st.q, st.r # <<>>), a.e - b.e + shift - Precision - 4))

FDivLong(a, b, la, lb) ==
    FDivLongBy(a, b, la - lb,
               DivBits(NShl(a.m, Max(0, lb - la)), NShl(b.m, Max(0, la - lb)),
                       Precision + 4))

\* float division a / b for b # 0
FDiv(a, b) ==
    IF a.s = 0 THEN Zero
    ELSE IF b.m = <<1>> THEN Fl([s |-> a.s * b.s, m |-> a.m, e |-> a.e - b.e])
    ELSE IF Len(b.m) = 1 THEN FDivSmall(a, b, Precision + 2 + LimbBits)
    ELSE FDivLong(a, b, NBitLen(a.m), NBitLen(b.m))

\* the two bits of m * 4^k at places 2j + 1 and 2j
PairAt(m, k, j) == IF j < k THEN 0 ELSE Limb(NShr(m, 2 * (j - k)), 1) % 4

\* one bit of the square root, by the schoolbook method: st.rem takes the
\* next two bits and is tried against 4 st.root + 1
SqrtTry(st, rem, trial) ==
    IF NCmp(rem, trial) >= 0
    THEN [root |-> NAdd(NShl(st.root, 1), <<1>>), rem |-> NSub(rem, trial),
          left |-> st.left - 1]
    ELSE [root |-> NShl(st.root, 1), rem |-> rem, left |-> st.left - 1]

SqrtStep(st, m, k) ==
    SqrtTry(st, NAdd(NShl(st.rem, 2), NFromInt(PairAt(m, k, st.left - 1))),
            NAdd(NShl(st.root, 2), <<1>>))

\* the floor of the square root of m * 4^k, and what remains
SqrtBits(m, k, pairs) ==
    LET StepOf(st) == SqrtStep(st, m, k)
    IN  Iterate(StepOf, 64, [root |-> <<>>, rem |-> <<>>, left |-> pairs])

FSqrtBy(e, k, st) == Fl(Dy(1, Sticky(st.root, st.rem # <<>>), (e \div 2) - k - 1))

FSqrtAt(m, e, k) == FSqrtBy(e, k, SqrtBits(m, k, (NBitLen(m) + 2 * k + 1) \div 2))

\* the square root of m * 2^e, e even
FSqrtOf(m, e) == FSqrtAt(m, e, Max(0, Precision + 2 - NBitLen(m) \div 2))

\* math.sqrt(x) for a float x >= 0: the float nearest to the root
FSqrt(x) ==
    IF x.s = 0 THEN Zero
    ELSE IF x.e % 2 = 0 THEN FSqrtOf(x.m, x.e)
    ELSE FSqrtOf(NShl(x.m, 1), x.e - 1)

(***************************************************************************)
(* log and exp: the float nearest to the logarithm and to the exponential, *)
(* from their series in fixed point, FixedLimbs limbs after the point      *)
(***************************************************************************)
FixedOne == <<0, 0, 0, 0, 0, 0, 1>>

FixedLimbs == Len(FixedOne) - 1

FixedBits == LimbBits * FixedLimbs

\* a * b in fixed point
FixedMul(a, b) == SubSeq(NMul(a, b), FixedLimbs + 1, Len(NMul(a, b)))

\* one more term of the series of atanh(p / q): t / odd joins the sum and t
\* becomes t * (p / q)^2; no term is left once t is 0
AtanhNext(st, t) ==
    [t |-> t, odd |-> st.odd + 2, sum |-> NAdd(st.sum, NDivSmall(st.t, st.odd).q),
     left |-> IF t = <<>> THEN 0 ELSE 1]

AtanhStep(st, p, q) ==
    AtanhNext(st, NDivSmall(NDivSmall(NMulSmall(NMulSmall(st.t, p), p), q).q, q).q)

\* atanh(p / q) in fixed point, 0 <= p < q < Base: the sum of
\* (p / q)^(2j + 1) / (2j + 1)
AtanhSum(p, q, t) ==
    LET StepOf(st) == AtanhStep(st, p, q)
    IN  Iterate(StepOf, 64, [t |-> t, odd |-> 1, sum |-> <<>>,
                         left |-> IF t = <<>> THEN 0 ELSE 1]).sum

Atanh(p, q) == AtanhSum(p, q, NDivSmall(NMulSmall(FixedOne, p), q).q)

\* ln 2 = 2 atanh(1/3)
Ln2 == NMulSmall(Atanh(1, 3), 2)

\* ln n = k ln 2 + 2 atanh((n - 2^k) / (n + 2^k)), 2^k <= n < 2^(k + 1)
LnFixedAt(n, k) ==
    NAdd(NMulSmall(Ln2, k), NMulSmall(Atanh(n - 2^k, n + 2^k), 2))

LnFixed(n) == LnFixedAt(n, LimbBitLen(n) - 1)

\* np.log(n) for an int n, 1 <= n < Base \div 2
log(n) == Fl(Dy(1, LnFixed(n), -FixedBits))

\* one more term of the series of exp(r): t joins the sum and t becomes
\* t * r / n
ExpNext(st, t) ==
    [t |-> t, n |-> st.n + 1, sum |-> NAdd(st.sum, st.t),
     left |-> IF t = <<>> THEN 0 ELSE 1]

ExpStep(st, r) == ExpNext(st, NDivSmall(FixedMul(st.t, r), st.n).q)

\* exp(r) in fixed point, 0 <= r < 1: the sum of r^j / j!
ExpSum(r) ==
    LET StepOf(st) == ExpStep(st, r)
    IN  Iterate(StepOf, 64, [t |-> FixedOne, n |-> 1, sum |-> <<>>, left |-> 1]).sum

\* the float x >= 0 in fixed point
ToFixed(x) ==
    IF x.s = 0 THEN <<>>
    ELSE IF x.e + FixedBits >= 0 THEN NShl(x.m, x.e + FixedBits)
    ELSE NShr(x.m, -(x.e + FixedBits))

\* the number of times ln 2 goes into x, x < 32 ln 2
Ln2Into(x) == Cardinality({k \in 1..31 : NCmp(NMulSmall(Ln2, k), x) <= 0})

\* exp(x) = 2^k exp(x - k ln 2)
ExpAt(x, k) == Fl(Dy(1, ExpSum(NSub(x, NMulSmall(Ln2, k))), k - FixedBits))

\* np.exp(x) for a float x, 0 <= x < 32 ln 2
exp(x) == ExpAt(ToFixed(x), Ln2Into(ToFixed(x)))

\* np.mean of the floats xs: their sum from the left, divided by their number
RECURSIVE sum_to(_, _)
sum_to(xs, k) == IF k = 0 THEN Zero ELSE FAdd(sum_to(xs, k - 1), xs[k])

mean(xs) == FDiv(sum_to(xs, Len(xs)), RInt(Len(xs)))

\* scipy.stats.gmean of the ints xs >= 1: exp(mean(log(xs)))
gmean_of(xs) == exp(mean([k \in DOMAIN xs |-> log(xs[k])]))

\* the roots and the means of the counts of the model, computed once
MetricLists ==
    UNION {[1..n -> {c + 1 : c \in Counts \cup {36}}] : n \in 2..3}

gmeans == {<<xs, gmean_of(xs)>> : xs \in MetricLists}

sqrts == {<<f, FSqrt(RInt(f))>> : f \in {g \in Followers : g > 0}}

\* scipy.stats.gmean(xs) and math.sqrt(f) for an int f >= 1
gmean(xs) ==
    IF xs \in MetricLists THEN (CHOOSE p \in gmeans : p[1] = xs)[2]
    ELSE gmean_of(xs)

sqrt(f) ==
    IF f \in Followers /\ f > 0 THEN (CHOOSE p \in sqrts : p[1] = f)[2]
    ELSE FSqrt(RInt(f))

(***************************************************************************)
(* api.get_full_account_name                                               *)
(***************************************************************************)
\* len(acct.split("@")): one more than the number of "@" in acct
SplitLen(acct) == Cardinality({i \in DOMAIN acct : acct[i] = "@"}) + 1

\* the name left as it is
get_full_account_name_unqualified(acct, default_host) == acct

get_full_account_name(acct, default_host) ==
    IF acct = <<>> THEN <<>>
    ELSE IF SplitLen(acct) = 2 THEN acct
    ELSE acct \o <<"@">> \o default_host

(***************************************************************************)
(* Post bodies: BeautifulSoup(...).get_text().lower(), re.findall(\w+)     *)
(***************************************************************************)
\* markup tokens, which get_text() drops
Tags == {"<p>", "</p>", "<br>"}
\* tokens that are not \w characters
NonWord == {" ", "."}

\* str.lower() on one token
Lower(tok) ==
    CASE tok = "Nuclear" -> "nuclear"
      [] tok = "TPNW"    -> "tpnw"
      [] tok = "SALW"    -> "salw"
      [] tok = "#NoBot"  -> "#nobot"
      [] tok = "Me"      -> "me"
      [] tok = "ME"      -> "me"
      [] tok = "mE"      -> "me"
      [] tok = "ICBM"    -> "icbm"
      [] tok = "ICBMs"   -> "icbms"
      [] tok = "ConferenceOnDisarmament" -> "conferenceondisarmament"
      [] tok = "EEAS"    -> "eeas"
      [] tok = "EU_UNGeneva" -> "eu_ungeneva"
      [] OTHER           -> tok

RECURSIVE get_text(_)
get_text(html) ==
    IF html = <<>> THEN <<>>
    ELSE IF Head(html) \in Tags THEN get_text(Tail(html))
    ELSE <<Head(html)>> \o get_text(Tail(html))

lower(text) == [i \in DOMAIN text |-> Lower(text[i])]

\* set(re.findall(r"(\w+)", text)): the maximal runs of word tokens
findall_words(text) ==
    {SubSeq(text, i, j) : <<i, j>> \in
        {ij \in (DOMAIN text) \X (DOMAIN text) :
            /\ ij[1] <= ij[2]
            /\ \A k \in ij[1]..ij[2] : text[k] \notin NonWord
            /\ (ij[1] = 1 \/ text[ij[1] - 1] \in NonWord)
            /\ (ij[2] = Len(text) \/ text[ij[2] + 1] \in NonWord)}}

words_in_toot(post) == findall_words(lower(get_text(post.content)))

(***************************************************************************)
(* scorers.py: the class hierarchy and Python's method resolution          *)
(***************************************************************************)
BaseScorerClasses ==
    {"SimpleScorer", "SimpleWeightedScorer",
     "ExtendedSimpleScorer", "ExtendedSimpleWeightedScorer"}

\* the base classes of each class statement, in the order written
Bases(c) ==
    CASE c = "UniformWeight"                -> <<"Weight">>
      [] c = "InverseFollowerWeight"        -> <<"Weight">>
      [] c = "SimpleScorer"                 -> <<"UniformWeight", "Scorer">>
      [] c = "SimpleWeightedScorer"         -> <<"InverseFollowerWeight", "SimpleScorer">>
      [] c = "ExtendedSimpleScorer"         -> <<"UniformWeight", "Scorer">>
      [] c = "ExtendedSimpleWeightedScorer" -> <<"InverseFollowerWeight", "ExtendedSimpleScorer">>
      [] OTHER                              -> <<>>

\* the classes whose body defines the method
Defines(c, attr) ==
    \/ attr = "weight" /\ c \in {"Weight", "UniformWeight", "InverseFollowerWeight"}
    \/ attr = "score"  /\ c \in BaseScorerClasses \cup {"Scorer"}

\* C3 merge: take the first head that is in no tail, remove it, repeat
C3Ok(live, i) ==
    \A j \in DOMAIN live : Head(live[i]) \notin Range(Tail(live[j]))

C3Pick(live) ==
    CHOOSE i \in DOMAIN live : C3Ok(live, i) /\ \A k \in 1..(i - 1) : ~C3Ok(live, k)

C3Drop(live, h) ==
    [i \in DOMAIN live |-> IF Head(live[i]) = h THEN Tail(live[i]) ELSE live[i]]

RECURSIVE C3Merge(_)

C3Take(live, h) == <<h>> \o C3Merge(C3Drop(live, h))

C3Step(live) ==
    IF live = <<>> THEN <<>> ELSE C3Take(live, Head(live[C3Pick(live)]))

C3Merge(lists) == C3Step(SelectSeq(lists, LAMBDA l : l # <<>>))

\* cls.__mro__ (without ABC and object, which define neither method)
RECURSIVE mro(_)

C3Linearize(c, bs) ==
    <<c>> \o C3Merge([i \in DOMAIN bs |-> mro(bs[i])] \o <<bs>>)

mro(c) == C3Linearize(c, Bases(c))

Classes ==
    BaseScorerClasses \cup {"Weight", "UniformWeight", "InverseFollowerWeight", "Scorer"}

\* the __mro__ attribute of every class, computed once, when the class is made
dunder_mro == [c \in Classes |-> mro(c)]

\* the first class of the list m that defines attr
FirstDefining(m, attr) ==
    m[CHOOSE i \in DOMAIN m :
          Defines(m[i], attr) /\ \A k \in 1..(i - 1) : ~Defines(m[k], attr)]

\* the classes of the list m after class c
After(m, c) == SubSeq(m, (CHOOSE i \in DOMAIN m : m[i] = c) + 1, Len(m))

\* cls.attr: the first class of cls.__mro__ that defines attr
Lookup(cls, attr) == FirstDefining(dunder_mro[cls], attr)

\* super().weight resolved as cls.weight
Super_weight_of_cls(c, cls, attr) ==
    IF attr = "weight" THEN Lookup(cls, attr)
    ELSE FirstDefining(After(dunder_mro[cls], c), attr)

\* super().attr written in the body of class c and run for cls: the first
\* class after c in cls.__mro__ that defines attr
Super(c, cls, attr) == FirstDefining(After(dunder_mro[cls], c), attr)

(***************************************************************************)
(* scorers.py: weights                                                     *)
(***************************************************************************)
UniformWeight_weight(scored_post) == RInt(1)

\* the weight growing with the follower count
InverseFollowerWeight_weight_direct(scored_post) ==
    IF scored_post.followers_count <= 0 THEN RInt(0)
    ELSE sqrt(scored_post.followers_count)

InverseFollowerWeight_weight(scored_post) ==
    IF scored_post.followers_count <= 0 THEN RInt(0)
    ELSE FDiv(RInt(1), sqrt(scored_post.followers_count))

\* the weight method found in class c
call_weight(c, scored_post) ==
    CASE c = "UniformWeight"         -> UniformWeight_weight(scored_post)
      [] c = "InverseFollowerWeight" -> InverseFollowerWeight_weight(scored_post)

(***************************************************************************)
(* scorers.py: the four base scorers                                       *)
(***************************************************************************)
\* metric_average without the test for "at least one metric"
Simple_metric_average_unguarded(scored_post) ==
    gmean(<<scored_post.reblogs_count + 1, scored_post.favourites_count + 1>>)

\* metric_average of SimpleScorer.score
Simple_metric_average(scored_post) ==
    IF scored_post.reblogs_count # 0 \/ scored_post.favourites_count # 0
    THEN gmean(<<scored_post.reblogs_count + 1,
                 scored_post.favourites_count + 1>>)
    ELSE RInt(0)

\* metric_average of ExtendedSimpleScorer.score
ExtendedSimple_metric_average(scored_post) ==
    IF \/ scored_post.reblogs_count # 0
       \/ scored_post.favourites_count # 0
       \/ scored_post.replies_count # 0
    THEN gmean(<<scored_post.reblogs_count + 1,
                 scored_post.favourites_count + 1,
                 scored_post.replies_count + 1>>)
    ELSE RInt(0)

RECURSIVE call_score(_, _, _)

SimpleScorer_score(cls, scored_post) ==
    FMul(Simple_metric_average(scored_post),
         call_weight(Super("SimpleScorer", cls, "weight"), scored_post))

SimpleWeightedScorer_score(cls, scored_post) ==
    FMul(call_score(Super("SimpleWeightedScorer", cls, "score"), cls, scored_post),
         call_weight(Super("SimpleWeightedScorer", cls, "weight"), scored_post))

ExtendedSimpleScorer_score(cls, scored_post) ==
    FMul(ExtendedSimple_metric_average(scored_post),
         call_weight(Super("ExtendedSimpleScorer", cls, "weight"), scored_post))

ExtendedSimpleWeightedScorer_score(cls, scored_post) ==
    FMul(call_score(Super("ExtendedSimpleWeightedScorer", cls, "score"), cls, scored_post),
         call_weight(Super("ExtendedSimpleWeightedScorer", cls, "weight"), scored_post))

\* the score method found in class c, run as a classmethod of cls
call_score(c, cls, scored_post) ==
    CASE c = "SimpleScorer"                 -> SimpleScorer_score(cls, scored_post)
      [] c = "SimpleWeightedScorer"         -> SimpleWeightedScorer_score(cls, scored_post)
      [] c = "ExtendedSimpleScorer"         -> ExtendedSimpleScorer_score(cls, scored_post)
      [] c = "ExtendedSimpleWeightedScorer" -> ExtendedSimpleWeightedScorer_score(cls, scored_post)

\* cls.score(post) and cls.weight(post) of a base scorer class
base_score(cls, scored_post) == call_score(Lookup(cls, "score"), cls, scored_post)

base_weight(cls, scored_post) == call_weight(Lookup(cls, "weight"), scored_post)

\* cls.__name__ as tokens
dunder_name(cls) ==
    CASE cls = "SimpleScorer"                 -> <<"Simple", "Scorer">>
      [] cls = "SimpleWeightedScorer"         -> <<"Simple", "Weighted", "Scorer">>
      [] cls = "ExtendedSimpleScorer"         -> <<"Extended", "Simple", "Scorer">>
      [] cls = "ExtendedSimpleWeightedScorer" -> <<"Extended", "Simple", "Weighted", "Scorer">>
      [] cls = "ConfiguredScorer"             -> <<"Configured", "Scorer">>
      [] cls = "FilteredScorer"               -> <<"Filtered", "Scorer">>

\* Scorer.get_name: cls.__name__.replace("Scorer", "")
Scorer_get_name(cls) == SelectSeq(dunder_name(cls), LAMBDA t : t # "Scorer")

\* get_scorers(): name -> class, without ConfiguredScorer and FilteredScorer
get_scorers == [nm \in {Scorer_get_name(c) : c \in BaseScorerClasses} |->
                   CHOOSE c \in BaseScorerClasses : Scorer_get_name(c) = nm]

(***************************************************************************)
(* scorers.py: ConfiguredScorer and FilteredScorer                         *)
(* A scorer object is a record: kind, base_scorer (a class; for a base     *)
(* scorer, its own class) and the attributes __init__ sets.                *)
(***************************************************************************)
NoAccounts == [a \in {} |-> RInt(1)]

\* scorers[args.scorer]()
BaseScorer(cls) ==
    [kind |-> "Base", base_scorer |-> cls, default_host |-> <<>>,
     amplify_accounts |-> NoAccounts, filtered_accounts |-> {},
     keywords |-> {}, filtered_account_boost |-> RInt(0)]

\* ConfiguredScorer.__init__(**pars)
ConfiguredScorer_init(pars) ==
    [kind |-> "Configured", base_scorer |-> get_scorers[pars.scorer],
     default_host |-> pars.default_host,
     amplify_accounts |-> pars.amplify_accounts, filtered_accounts |-> {},
     keywords |-> {}, filtered_account_boost |-> RInt(0)]

\* FilteredScorer.__init__(**pars); a keyword is lower-cased token by token
FilteredScorer_init(pars) ==
    [kind |-> "Filtered", base_scorer |-> get_scorers[pars.scorer],
     default_host |-> pars.default_host,
     amplify_accounts |-> NoAccounts,
     filtered_accounts |-> pars.filtered_accounts,
     keywords |-> {lower(word) : word \in pars.keywords},
     filtered_account_boost |-> FDiv(RInt(-5), RInt(100))]

\* dict.get(acct, 1.0)
dict_get(d, key, default) == IF key \in DOMAIN d THEN d[key] ELSE default

\* get_full_account_name(scored_post.info.get("account", {}).get("acct", ""),
\*                       self.default_host)
full_acct(self, scored_post) ==
    get_full_account_name(scored_post.acct, self.default_host)

ConfiguredScorer_weight(self, scored_post) ==
    FMul(base_weight(self.base_scorer, scored_post),
         dict_get(self.amplify_accounts, full_acct(self, scored_post), RInt(1)))

\* s * self.weight(scored_post), s being self.base_scorer.score(scored_post)
ConfiguredScorer_score_of(self, scored_post, s) ==
    FMul(s, ConfiguredScorer_weight(self, scored_post))

ConfiguredScorer_score(self, scored_post) ==
    ConfiguredScorer_score_of(self, scored_post,
                              base_score(self.base_scorer, scored_post))

\* for word in words_in_toot: if word in self.keywords
keyword_found(self, scored_post) ==
    \E word \in words_in_toot(scored_post) : word \in self.keywords

\* FilteredScorer.weight without the + 1.0 of a matched post
FilteredScorer_weight_no_bonus(self, scored_post) ==
    IF full_acct(self, scored_post) \in self.filtered_accounts
    THEN IF keyword_found(self, scored_post)
         THEN base_weight(self.base_scorer, scored_post)
         ELSE RInt(-1)
    ELSE base_weight(self.base_scorer, scored_post)

\* FilteredScorer.weight that leaves an unmatched post its base weight
FilteredScorer_weight_unmatched_kept(self, scored_post) ==
    IF full_acct(self, scored_post) \in self.filtered_accounts
       /\ keyword_found(self, scored_post)
    THEN FAdd(base_weight(self.base_scorer, scored_post), RInt(1))
    ELSE base_weight(self.base_scorer, scored_post)

FilteredScorer_weight(self, scored_post) ==
    IF full_acct(self, scored_post) \in self.filtered_accounts
    THEN IF keyword_found(self, scored_post)
         THEN FAdd(base_weight(self.base_scorer, scored_post), RInt(1))
         ELSE RInt(-1)
    ELSE base_weight(self.base_scorer, scored_post)

\* if acct in self.filtered_accounts: s = s + self.filtered_account_boost
FilteredScorer_boosted(self, scored_post, s) ==
    IF full_acct(self, scored_post) \in self.filtered_accounts
    THEN FAdd(s, self.filtered_account_boost)
    ELSE s

\* the body of FilteredScorer.score once w = self.weight(scored_post) is
\* known, s being self.base_scorer.score(scored_post)
FilteredScorer_score_with(self, scored_post, w, s) ==
    IF RLt(w, RInt(0)) THEN RInt(-1)
    ELSE FilteredScorer_boosted(self, scored_post, FMul(s, w))

FilteredScorer_score(self, scored_post) ==
    FilteredScorer_score_with(self, scored_post,
                              FilteredScorer_weight(self, scored_post),
                              base_score(self.base_scorer, scored_post))

FilteredScorer_is_filtered(self, scored_post) ==
    full_acct(self, scored_post) \in self.filtered_accounts

\* scorer.get_name()
\* the name of the base scorer for every scorer
get_name_unprefixed(self) == Scorer_get_name(self.base_scorer)

get_name(self) ==
    CASE self.kind = "Base"       -> Scorer_get_name(self.base_scorer)
      [] self.kind = "Configured" -> <<"Configured">> \o Scorer_get_name(self.base_scorer)
      [] self.kind = "Filtered"   -> <<"Filtered">> \o Scorer_get_name(self.base_scorer)

\* scorer.score(post) by the class of the scorer, s being the score of the
\* base scorer class, which each of the three score methods starts from
score_of(self, scored_post, s) ==
    CASE self.kind = "Base"       -> s
      [] self.kind = "Configured" -> ConfiguredScorer_score_of(self, scored_post, s)
      [] self.kind = "Filtered"   ->
             FilteredScorer_score_with(self, scored_post,
                                       FilteredScorer_weight(self, scored_post), s)

\* scorer.score(post)
score(self, scored_post) ==
    score_of(self, scored_post, base_score(self.base_scorer, scored_post))

\* scorer.weight(post)
weight(self, scored_post) ==
    CASE self.kind = "Base"       -> base_weight(self.base_scorer, scored_post)
      [] self.kind = "Configured" -> ConfiguredScorer_weight(self, scored_post)
      [] self.kind = "Filtered"   -> FilteredScorer_weight(self, scored_post)

(***************************************************************************)
(* models.py: ScoredPost                                                   *)
(***************************************************************************)
\* what the class ScoredPost defines
ScoredPost_attributes ==
    {"info", "url", "get_home_url", "get_score", "from_twitter",
     "matches_keywords", "count_keywords", "content_text", "link_urls"}

get_score(scored_post, scr) == score(scr, scored_post)

(***************************************************************************)
(* thresholds.py                                                           *)
(***************************************************************************)
\* class Threshold(Enum): name -> value
Threshold == [LAX |-> 90, NORMAL |-> 95, STRICT |-> 98]

ThresholdNames == DOMAIN Threshold

\* numpy.sort, ascending: x put into the sorted list rest
sorted_insert(x, rest, k) ==
    SubSeq(rest, 1, k) \o <<x>> \o SubSeq(rest, k + 1, Len(rest))

sorted_place(x, rest) ==
    sorted_insert(x, rest, Cardinality({i \in DOMAIN rest : RLt(rest[i], x)}))

RECURSIVE np_sort(_)
np_sort(a) ==
    IF a = <<>> THEN <<>> ELSE sorted_place(Head(a), np_sort(Tail(a)))

\* the two neighbours sorted_[i], sorted_[i + 1] (0-based) of the fractional
\* index idx, weighted by (j - idx) and (idx - i) with j = i + 1:
\* np.add.reduce(sorted_[i:i + 2] * weights) / weights.sum(), every
\* operation a float operation
interpolate(lo, hi, w1, w2) ==
    FDiv(FAdd(FMul(lo, w1), FMul(hi, w2)), FAdd(w1, w2))

\* int(x) for a float 0 <= x < Base: the fraction cut off
int(x) == Limb(IF x.e >= 0 THEN NShl(x.m, x.e) ELSE NShr(x.m, -x.e), 1)

percentile_at(sorted_, idx, i) ==
    IF RInt(i) = idx THEN sorted_[i + 1]
    ELSE interpolate(sorted_[i + 1], sorted_[i + 2],
                     FSub(RInt(i + 1), idx), FSub(idx, RInt(i)))

percentile_index(sorted_, idx) == percentile_at(sorted_, idx, int(idx))

\* scipy.stats.scoreatpercentile(a, per), interpolation "fraction", for a
\* non-empty list: idx = per / 100. * (n - 1); the element at idx when idx is
\* whole, else the two neighbours interpolated
scoreatpercentile(a, per) ==
    percentile_index(np_sort(a),
                     FMul(FDiv(RInt(per), RInt(100)), RInt(Len(a) - 1)))

\* [p.get_score(scorer) for p in ps]
RECURSIVE scores_of(_, _)
scores_of(ps, scr) ==
    IF ps = <<>> THEN <<>>
    ELSE <<get_score(Head(ps), scr)>> \o scores_of(Tail(ps), scr)

\* [post for post, score in zip(ps, scores) if score >= min_score]
RECURSIVE zip_filter(_, _, _)
zip_filter(ps, scores, min_score) ==
    IF ps = <<>> \/ scores = <<>> THEN <<>>
    ELSE (IF RGe(Head(scores), min_score) THEN <<Head(ps)>> ELSE <<>>)
         \o zip_filter(Tail(ps), Tail(scores), min_score)

\* the value returned, or the exception raised
Returned(v) == [raised |-> "", value |-> v]

Raised(e) == [raised |-> e, value |-> <<>>]

\* re.search(r"^Filtered", scorer.get_name())
starts_with(nm, prefix) == nm # <<>> /\ Head(nm) = prefix

match_Filtered(scr) == starts_with(get_name(scr), "Filtered")

\* min_score: the percentile of the scores, 0.0 when there is none
min_score_of(self, all_post_scores) ==
    IF Len(all_post_scores) > 0
    THEN scoreatpercentile(all_post_scores, Threshold[self])
    ELSE RInt(0)

\* threshold_posts, from eligible_posts and all_post_scores
threshold_posts_of(self, eligible_posts, all_post_scores) ==
    zip_filter(eligible_posts, all_post_scores, min_score_of(self, all_post_scores))

\* [post for post in posts if post.get_score(scorer) >= 0]
eligible_of(ps, scr) ==
    SelectSeq(ps, LAMBDA post : RGe(get_score(post, scr), RInt(0)))

\* the statements after the if/else, from eligible_posts on; on the Filtered
\* path eligible_filtered_posts is appended
rest_of_criteria(self, match, eligible_posts, eligible_filtered_posts, scr) ==
    threshold_posts_of(self, eligible_posts, scores_of(eligible_posts, scr))
        \o (IF match THEN eligible_filtered_posts ELSE <<>>)

\* Threshold.posts_meeting_criteria(self, posts, scorer).  On the Filtered
\* path the first list comprehension calls post.is_filtered(scorer) on the
\* ScoredPost: the class has no such attribute, so with a post to look at the
\* call raises AttributeError; with no post, all four lists are empty.
criteria_with(self, ps, scr, match) ==
    IF match /\ ps # <<>> /\ "is_filtered" \notin ScoredPost_attributes
    THEN Raised("AttributeError")
    ELSE Returned(rest_of_criteria(self, match,
                      IF match THEN <<>> ELSE eligible_of(ps, scr), <<>>, scr))

posts_meeting_criteria(self, ps, scr) ==
    criteria_with(self, ps, scr, match_Filtered(scr))

(***************************************************************************)
(* The inputs the model draws                                              *)
(***************************************************************************)
DefaultHost == <<"h1">>

Alice == <<"alice">>

AliceFull == <<"alice", "@", "h1">>

Bob == <<"bob", "@", "h2">>

\* "Nuclear war" in one paragraph: the words nuclear, war
TextMatch == <<"<p>", "Nuclear", " ", "war", "</p>">>

\* two paragraphs with nothing between them: get_text() gives the one word
\* nuclearwar
TextJoined == <<"<p>", "nuclear", "</p>", "<p>", "war", "</p>">>

TextOther == <<"peace", ".">>

Contents == {TextMatch, TextJoined, TextOther}

Accts == {<<>>, Alice, AliceFull, Bob}

\* the fields of info the scorers read (account.acct and
\* account.followers_count are flattened)
Info(id, acct, fol, rb, fv, rp, content) ==
    [id |-> id, acct |-> acct, followers_count |-> fol, reblogs_count |-> rb,
     favourites_count |-> fv, replies_count |-> rp, content |-> content]

PostUniverse ==
    {Info(0, a, fol, rb, fv, rp, c) :
        a \in Accts, fol \in Followers, rb \in Counts, fv \in Counts,
        rp \in Counts, c \in Contents}

\* the posts a batch of Spec is made of
BatchPosts ==
    {Info(0, Alice, 4, 63, 63, 0, TextMatch),
     Info(0, AliceFull, 16, 63, 0, 0, TextOther),
     Info(0, Bob, 1, 63, 0, 63, TextMatch),
     Info(0, Bob, -1, 0, 0, 0, TextJoined),
     Info(0, Alice, 4, 63, 0, 0, TextMatch),
     Info(0, Bob, 1, 0, 36, 0, TextOther)}

AmplifyOne == [a \in {AliceFull} |-> RInt(2)]

AmplifyTwo == [a \in {AliceFull, Bob} |-> IF a = AliceFull THEN FDiv(RInt(1), RInt(2)) ELSE RInt(-1)]

AmplifyMaps == {AmplifyOne, AmplifyTwo}

BaseScorers == {BaseScorer(c) : c \in BaseScorerClasses}

ConfiguredScorers ==
    {ConfiguredScorer_init([scorer |-> nm, default_host |-> DefaultHost,
                            amplify_accounts |-> m]) :
        nm \in DOMAIN get_scorers, m \in AmplifyMaps}

FilteredScorers ==
    {FilteredScorer_init([scorer |-> nm, default_host |-> DefaultHost,
                          filtered_accounts |-> {AliceFull},
                          keywords |-> {<<"Nuclear">>}]) :
        nm \in DOMAIN get_scorers}

Scorers == BaseScorers \cup ConfiguredScorers \cup FilteredScorers

(***************************************************************************)
(* State                                                                   *)
(*   scorer    the scorer object of the run                                *)
(*   posts     the batch of ScoredPost, in fetch order                     *)
(*   scored    <<>>, or for each post what scorer.score and scorer.weight  *)
(*             returned for it                                             *)
(*   selected  for each Threshold, <<>> or <<r>> with r what               *)
(*             posts_meeting_criteria returned or raised on the batch      *)
(***************************************************************************)
NothingSelected == [t \in ThresholdNames |-> <<>>]

\* no pipeline run, no page loop and no program start under way
NoPipeline ==
    /\ boosts = <<>>
    /\ threshold = "NORMAL"
    /\ env = <<>>
    /\ runs = <<>>

NoFetching == fetching = <<>>

NoStartup == startup = <<>>

\* no re-share queue looked at
NoQueue == queue = <<>>

Untouched == scored = <<>> /\ selected = NothingSelected

\* ScoredPost(post) appended to the batch (api.py), its id the position
Fetch(info, limit) ==
    /\ Untouched
    /\ Len(posts) < limit
    /\ posts' = Append(posts, [info EXCEPT !.id = Len(posts) + 1])
    /\ UNCHANGED <<scorer, scored, selected, others>>

\* post.get_score(scorer) for every post of the batch
Score ==
    /\ scored = <<>>
    /\ posts # <<>>
    /\ scored' = [i \in DOMAIN posts |->
                     [score  |-> get_score(posts[i], scorer),
                      weight |-> weight(scorer, posts[i])]]
    /\ UNCHANGED <<scorer, posts, selected, others>>

\* threshold.posts_meeting_criteria(posts, scorer) for Threshold t
Select(t) ==
    /\ selected[t] = <<>>
    /\ selected' = [selected EXCEPT ![t] = <<posts_meeting_criteria(t, posts, scorer)>>]
    /\ UNCHANGED <<scorer, posts, scored, others>>

\* the thresholds are tried on a batch from the laxest to the strictest
LaxerDone(t) ==
    \A u \in ThresholdNames : Threshold[u] < Threshold[t] => selected[u] # <<>>

\* batches of up to MaxPosts posts, any scorer
Init ==
    /\ NoPipeline /\ NoFetching /\ NoStartup /\ NoQueue
    /\ scorer \in Scorers
    /\ posts = <<>>
    /\ scored = <<>>
    /\ selected = NothingSelected

Next ==
    \/ \E info \in BatchPosts : Fetch(info, MaxPosts)
    \/ \E t \in ThresholdNames : LaxerDone(t) /\ Select(t)

Spec == Init /\ [][Next]_vars

\* one post and the same post with another follower count, any scorer: the
\* two are scored, then the thresholds are applied
InitScore ==
    /\ NoPipeline /\ NoFetching /\ NoStartup /\ NoQueue
    /\ scorer \in Scorers
    /\ \E info \in PostUniverse, fol \in Followers :
           posts = <<[info EXCEPT !.id = 1],
                     [info EXCEPT !.id = 2, !.followers_count = fol]>>
    /\ scored = <<>>
    /\ selected = NothingSelected

NextScore ==
    \/ Score
    \/ \E t \in ThresholdNames : scored # <<>> /\ LaxerDone(t) /\ Select(t)

SpecScore == InitScore /\ [][NextScore]_vars

\* the counts of the posts a base scorer aggregates: none, one, 63 (a power
\* of two once incremented), and 4095 and 8191, where log(4096) + log(8192)
\* falls half-way between two floats
AggregateCounts == {0, 1, 63, 4095, 8191}

\* one post of any counts and any follower count, before a base scorer
InitAggregate ==
    /\ NoPipeline /\ NoFetching /\ NoStartup /\ NoQueue
    /\ scorer \in BaseScorers
    /\ \E fol \in Followers, reblogs, favourites, replies \in AggregateCounts :
           posts = <<Info(1, Alice, fol, reblogs, favourites, replies, TextOther)>>
    /\ scored = <<>>
    /\ selected = NothingSelected

NextAggregate == Score

SpecAggregate == InitAggregate /\ [][NextAggregate]_vars

(***************************************************************************)
(* What the properties below speak of                                      *)
(***************************************************************************)
\* the score of the i-th post of the batch under the run's scorer
ScoreOf(i) == get_score(posts[i], scorer)

Ids(ps) == {ps[k].id : k \in DOMAIN ps}

\* what posts_meeting_criteria gave for threshold t, once it has run
Ran(t) == selected[t] # <<>>

ResultOf(t) == selected[t][1]

\* the percentile targets as the specification names them
PercentileTarget == [LAX |-> 90, NORMAL |-> 95, STRICT |-> 98]

\* the scores of the batch under the run's scorer, in batch order
ScoresNow == scores_of(posts, scorer)

\* the k-th smallest (k = 0, 1, ...) of the scores sc[i], i in S
OrderStat(sc, S, k) ==
    sc[CHOOSE i \in S :
           /\ Cardinality({j \in S : RLt(sc[j], sc[i])}) <= k
           /\ k < Cardinality({j \in S : RLe(sc[j], sc[i])})]

\* 100 times the number that lies fr hundredths of the way from a to b,
\* exactly
Between(a, b, fr) == XAdd(XMul(RInt(100 - fr), a), XMul(RInt(fr), b))

PercentileAt(sc, S, lo, fr) ==
    IF fr = 0 THEN XMul(RInt(100), OrderStat(sc, S, lo))
    ELSE Between(OrderStat(sc, S, lo), OrderStat(sc, S, lo + 1), fr)

\* 100 times the per-th percentile of the scores sc[i], i in S (S not
\* empty), by linear interpolation between order statistics, exactly: the
\* percentile is at position per/100 * (n - 1)
PercentileOf(sc, S, per) ==
    PercentileAt(sc, S, (per * (Cardinality(S) - 1)) \div 100,
                 (per * (Cardinality(S) - 1)) % 100)

\* the posts of S at or above the cutoff cut100 / 100
AtOrAboveCut(sc, S, cut100) == {i \in S : RGe(XMul(RInt(100), sc[i]), cut100)}

\* the posts of S at or above the per-th percentile of S
AtOrAbove(sc, S, per) ==
    IF S = {} THEN {} ELSE AtOrAboveCut(sc, S, PercentileOf(sc, S, per))

NonNegative(sc) == {i \in DOMAIN sc : RGe(sc[i], RInt(0))}

(***************************************************************************)
(* C1                                                                      *)
(***************************************************************************)
C1_Exact(sc) ==
    \A t \in ThresholdNames : Ran(t) =>
        /\ ResultOf(t).raised = ""
        /\ Ids(ResultOf(t).value) = AtOrAbove(sc, NonNegative(sc), PercentileTarget[t])
        /\ Len(ResultOf(t).value) = Cardinality(Ids(ResultOf(t).value))

\* C1: with a scorer that is not Filtered-family, posts_meeting_criteria
\* returns (raises nothing), and returns exactly, each once, the posts whose
\* score is >= 0 and >= the threshold's percentile of the scores that are >= 0.
C1_ExactSelection == scorer.kind # "Filtered" => C1_Exact(ScoresNow)

(***************************************************************************)
(* C2                                                                      *)
(***************************************************************************)
\* the author is in the filtered-account set, the text has a configured
\* keyword, the score is strictly positive
C2_Qualifies(i) ==
    /\ FilteredScorer_is_filtered(scorer, posts[i])
    /\ keyword_found(scorer, posts[i])
    /\ RGt(ScoreOf(i), RInt(0))

\* C2: with a Filtered-family scorer, every filtered-author post with a
\* keyword and a strictly positive score is in the result of
\* posts_meeting_criteria, for every percentile target.
C2_AlwaysIncluded ==
    scorer.kind = "Filtered" =>
        \A t \in ThresholdNames : Ran(t) =>
            \A i \in DOMAIN posts : C2_Qualifies(i) =>
                /\ ResultOf(t).raised = ""
                /\ posts[i].id \in Ids(ResultOf(t).value)

(***************************************************************************)
(* C3                                                                      *)
(***************************************************************************)
\* the author is in the filtered-account set and the text has no keyword
C3_Unmatched(i) ==
    /\ FilteredScorer_is_filtered(scorer, posts[i])
    /\ ~keyword_found(scorer, posts[i])

\* C3: with a Filtered-family scorer, a filtered-author post without any
\* keyword scores exactly -1, whatever its counts, and is in no result of
\* posts_meeting_criteria, for any percentile target.
C3_UnmatchedExcluded ==
    scorer.kind = "Filtered" =>
        \A i \in DOMAIN posts : C3_Unmatched(i) =>
            /\ scored # <<>> => scored[i].score = RInt(-1)
            /\ \A t \in ThresholdNames : Ran(t) =>
                   posts[i].id \notin Ids(ResultOf(t).value)

\* a filtered author's post with engagement and followers but no keyword,
\* scored, and every threshold applied to its batch
C3_Witness ==
    /\ scorer.kind = "Filtered"
    /\ C3_Unmatched(1)
    /\ posts[1].reblogs_count > 0 /\ posts[1].replies_count > 0
    /\ posts[1].followers_count > 1
    /\ scored # <<>>
    /\ \A t \in ThresholdNames : Ran(t)

(***************************************************************************)
(* C4                                                                      *)
(***************************************************************************)
\* the posts whose author is not in the filtered-account set
C4_Unfiltered == {i \in DOMAIN posts : ~FilteredScorer_is_filtered(scorer, posts[i])}

C4_Cut(sc, U) ==
    \A t \in ThresholdNames : Ran(t) =>
        /\ ResultOf(t).raised = ""
        /\ \A i \in U :
               posts[i].id \in Ids(ResultOf(t).value)
                   <=> i \in AtOrAbove(sc, U \cap NonNegative(sc), PercentileTarget[t])

\* C4: with a Filtered-family scorer, the percentile cutoff is computed from
\* the unfiltered-author posts alone, and an unfiltered-author post is in the
\* result iff its score is >= 0 and >= that cutoff.
C4_UnfilteredByPercentile ==
    scorer.kind = "Filtered" => C4_Cut(ScoresNow, C4_Unfiltered)

(***************************************************************************)
(* C5                                                                      *)
(***************************************************************************)
C5_Within(t, u) ==
    (Ran(t) /\ Ran(u) /\ ResultOf(t).raised = "" /\ ResultOf(u).raised = "") =>
        Ids(ResultOf(t).value) \subseteq Ids(ResultOf(u).value)

\* C5: on one batch and one scorer, the result for STRICT (98) is within the
\* result for NORMAL (95), which is within the result for LAX (90), whenever
\* the two calls return.
C5_Monotone == C5_Within("STRICT", "NORMAL") /\ C5_Within("NORMAL", "LAX")

(***************************************************************************)
(* C6                                                                      *)
(***************************************************************************)
SimpleFamily == {"SimpleScorer", "SimpleWeightedScorer"}

WeightedFamily == {"SimpleWeightedScorer", "ExtendedSimpleWeightedScorer"}

\* the counts a base scorer aggregates
ConstituentCounts(cls, post) ==
    IF cls \in SimpleFamily
    THEN <<post.reblogs_count, post.favourites_count>>
    ELSE <<post.reblogs_count, post.favourites_count, post.replies_count>>

\* the aggregate (metric_average) a base scorer computes
Aggregate(cls, post) ==
    IF cls \in SimpleFamily THEN Simple_metric_average(post)
    ELSE ExtendedSimple_metric_average(post)

AllZero(cs) == \A k \in DOMAIN cs : cs[k] = 0

\* the product of the counts cs each incremented by 1, exactly
RECURSIVE ProductPlusOne(_)
ProductPlusOne(cs) ==
    IF cs = <<>> THEN RInt(1)
    ELSE XMul(RInt(Head(cs) + 1), ProductPlusOne(Tail(cs)))

\* x^k, exactly
RECURSIVE XPow(_, _)
XPow(x, k) == IF k = 0 THEN RInt(1) ELSE XMul(x, XPow(x, k - 1))

\* g is the geometric mean of the counts cs each incremented by 1
IsGeometricMeanPlusOne(g, cs) ==
    /\ g.s > 0
    /\ XPow(g, Len(cs)) = ProductPlusOne(cs)

\* 2^-44.  The logarithm of a count below 2^63 is below 64, where floats
\* lie 2^-47 apart; the sum of two is below 128 and that of three below 256,
\* where they lie 2^-46 and 2^-45 apart.  A logarithm a few floats off, the
\* roundings of the two additions and of the division leave the mean within
\* 2^-44 of the true one, and exp turns that into a relative error
Rounding == [s |-> 1, m |-> <<1>>, e |-> -44]

\* 2^-50, which the mean of two logarithms already exceeds
RoundingOfOne == [s |-> 1, m |-> <<1>>, e |-> -50]

\* the geometric mean of the counts cs each incremented by 1 lies between
\* g * (1 - r) and g * (1 + r)
Near(g, cs, r) ==
    /\ g.s > 0
    /\ RLe(XPow(XMul(g, XSub(RInt(1), r)), Len(cs)), ProductPlusOne(cs))
    /\ RLe(ProductPlusOne(cs), XPow(XMul(g, XAdd(RInt(1), r)), Len(cs)))

NearGeometricMeanPlusOne(g, cs) == Near(g, cs, Rounding)

C6_Post(cls, post, obs) ==
    IF AllZero(ConstituentCounts(cls, post))
    THEN obs.score = RInt(0)
    ELSE /\ Aggregate(cls, post) # RInt(0)
         /\ IsGeometricMeanPlusOne(Aggregate(cls, post), ConstituentCounts(cls, post))

\* C6 as stated: under each base scorer a post whose constituent counts are
\* all zero scores exactly 0 for every follower count; otherwise the
\* aggregate is not zero and is the geometric mean of the counts each
\* incremented by 1.
C6_ZeroOrGeometricMean ==
    (scorer.kind = "Base" /\ scored # <<>>) =>
        \A i \in DOMAIN posts : C6_Post(scorer.base_scorer, posts[i], scored[i])

C6_PostRounded(cls, post, obs) ==
    IF AllZero(ConstituentCounts(cls, post))
    THEN obs.score = RInt(0)
    ELSE /\ Aggregate(cls, post) # RInt(0)
         /\ NearGeometricMeanPlusOne(Aggregate(cls, post), ConstituentCounts(cls, post))

\* C6, amended: under each base scorer a post whose constituent counts are
\* all zero scores exactly 0 for every follower count; otherwise the
\* aggregate is not zero and is the geometric mean of the counts each
\* incremented by 1 up to the rounding of exp(mean(log)): for counts below
\* 2^63 the relative error is at most 2^-44.
C6_ZeroOrGeometricMeanRounded ==
    (scorer.kind = "Base" /\ scored # <<>>) =>
        \A i \in DOMAIN posts : C6_PostRounded(scorer.base_scorer, posts[i], scored[i])

\* a post with 4095 reblogs and 8191 favourites scored by SimpleScorer or
\* SimpleWeightedScorer: its aggregate is not the geometric mean of 4096 and
\* 8192 and is more than 2^-50 of itself away from it, yet within the
\* rounding
C6_Witness ==
    /\ scorer.kind = "Base" /\ scorer.base_scorer \in SimpleFamily
    /\ scored # <<>>
    /\ posts[1].reblogs_count = 4095 /\ posts[1].favourites_count = 8191
    /\ ~IsGeometricMeanPlusOne(Aggregate(scorer.base_scorer, posts[1]), <<4095, 8191>>)
    /\ ~Near(Aggregate(scorer.base_scorer, posts[1]), <<4095, 8191>>, RoundingOfOne)
    /\ NearGeometricMeanPlusOne(Aggregate(scorer.base_scorer, posts[1]), <<4095, 8191>>)

(***************************************************************************)
(* C7                                                                      *)
(***************************************************************************)
C7_Pair(cls, p, q, op, oq) ==
    (0 < p.followers_count /\ p.followers_count < q.followers_count) =>
        /\ RGt(op.weight, oq.weight)
        /\ ~AllZero(ConstituentCounts(cls, p)) => RGt(op.score, oq.score)

\* C7: the inverse-follower weight is 0 for a follower count <= 0 and
\* strictly decreasing above 0; of two posts with the same engagement, not
\* all zero, the one with fewer (positive) followers scores strictly higher
\* under SimpleWeighted and ExtendedSimpleWeighted.
C7_InverseFollower ==
    (scorer.kind = "Base" /\ scorer.base_scorer \in WeightedFamily /\ scored # <<>>) =>
        /\ \A i \in DOMAIN posts :
               posts[i].followers_count <= 0 => scored[i].weight = RInt(0)
        /\ \A i, j \in DOMAIN posts :
               C7_Pair(scorer.base_scorer, posts[i], posts[j], scored[i], scored[j])

\* the same engaged post from an author with 4 and with 16 followers
C7_Witness ==
    /\ scorer.kind = "Base" /\ scorer.base_scorer \in WeightedFamily
    /\ scored # <<>>
    /\ posts[1].followers_count = 4 /\ posts[2].followers_count = 16
    /\ posts[1].reblogs_count > 0
    /\ RGt(scored[1].score, scored[2].score)

(***************************************************************************)
(* C8                                                                      *)
(***************************************************************************)
\* the one weight rule of a base scorer
WeightRule(cls, post) ==
    IF cls \in WeightedFamily THEN InverseFollowerWeight_weight(post)
    ELSE UniformWeight_weight(post)

\* the unweighted scorer a weighted scorer extends
Unweighted(cls) ==
    IF cls \in SimpleFamily THEN "SimpleScorer" ELSE "ExtendedSimpleScorer"

C8_Post(cls, post, obs) ==
    /\ obs.score = FMul(Aggregate(cls, post), WeightRule(cls, post))
    /\ obs.weight = WeightRule(cls, post)
    /\ cls \notin WeightedFamily => obs.score = Aggregate(cls, post)
    /\ cls \in WeightedFamily =>
           obs.score = FMul(base_score(Unweighted(cls), post),
                            InverseFollowerWeight_weight(post))

\* C8: a base scorer's score is its aggregate times its weight, the weight
\* applied once: Simple and ExtendedSimple are the aggregate times 1,
\* SimpleWeighted and ExtendedSimpleWeighted the Simple and ExtendedSimple
\* score of the post times the inverse-follower weight.
C8_AggregateTimesWeight ==
    (scorer.kind = "Base" /\ scored # <<>>) =>
        \A i \in DOMAIN posts : C8_Post(scorer.base_scorer, posts[i], scored[i])

\* an engaged post of an author with 4 followers under a weighted scorer
C8_Witness ==
    /\ scorer.kind = "Base" /\ scorer.base_scorer \in WeightedFamily
    /\ scored # <<>>
    /\ posts[1].followers_count = 4
    /\ posts[1].favourites_count > 0
    /\ scored[1].score # RInt(0)

(***************************************************************************)
(* C9                                                                      *)
(***************************************************************************)
\* the handle, with the default host when it has no host part
Qualified(acct, host) ==
    IF "@" \in Range(acct) THEN acct ELSE acct \o <<"@">> \o host

\* the amplification factor of a handle: 1 when it is not listed
Factor(self, acct) ==
    IF Qualified(acct, self.default_host) \in DOMAIN self.amplify_accounts
    THEN self.amplify_accounts[Qualified(acct, self.default_host)]
    ELSE RInt(1)

IsBare(acct) == acct # <<>> /\ "@" \notin Range(acct)

C9_Post(self, post, obs) ==
    /\ obs.score = FMul(FMul(base_score(self.base_scorer, post),
                             base_weight(self.base_scorer, post)),
                        Factor(self, post.acct))
    /\ IsBare(post.acct) =>
           obs.score = get_score([post EXCEPT !.acct = Qualified(post.acct, self.default_host)],
                                 self)

\* C9: ConfiguredScorer.score(post) = base.score(post) x base.weight(post) x
\* amplify[handle], the handle qualified with the default host when it has no
\* host part and the factor 1 when not listed; a bare handle and its
\* user@default_host form score alike.
C9_Amplified ==
    (scorer.kind = "Configured" /\ scored # <<>>) =>
        \A i \in DOMAIN posts : C9_Post(scorer, posts[i], scored[i])

\* an engaged post of the bare handle alice, amplified as alice@h1
C9_Witness ==
    /\ scorer.kind = "Configured"
    /\ scored # <<>>
    /\ posts[1].acct = Alice
    /\ Factor(scorer, Alice) = RInt(2)
    /\ posts[1].followers_count = 4
    /\ scored[1].score # RInt(0)
    /\ scored[1].score # FMul(base_score(scorer.base_scorer, posts[1]),
                              base_weight(scorer.base_scorer, posts[1]))

(***************************************************************************)
(* C10                                                                     *)
(***************************************************************************)
\* the words of a text: the runs of word tokens between non-word tokens
RECURSIVE SplitWords(_, _)
SplitWords(text, cur) ==
    IF text = <<>> THEN (IF cur = <<>> THEN {} ELSE {cur})
    ELSE IF Head(text) \in NonWord
         THEN (IF cur = <<>> THEN {} ELSE {cur}) \cup SplitWords(Tail(text), <<>>)
         ELSE SplitWords(Tail(text), Append(cur, Head(text)))

\* the case-folded words of the plain text of a post body
FoldedWords(content) ==
    LET plain == SelectSeq(content, LAMBDA tok : tok \notin Tags)
    IN  SplitWords([k \in DOMAIN plain |-> Lower(plain[k])], <<>>)

AuthorFiltered(self, post) ==
    Qualified(post.acct, self.default_host) \in self.filtered_accounts

C10_Post(self, post, obs) ==
    obs.weight =
        IF AuthorFiltered(self, post)
        THEN IF FoldedWords(post.content) \cap self.keywords # {}
             THEN FAdd(base_weight(self.base_scorer, post), RInt(1))
             ELSE RInt(-1)
        ELSE base_weight(self.base_scorer, post)

\* C10: FilteredScorer.weight(post) is base.weight(post) + 1.0 for a filtered
\* author whose text has a keyword, -1.0 for a filtered author whose text has
\* none, and base.weight(post) for any other author.
C10_ThreeWeights ==
    (scorer.kind = "Filtered" /\ scored # <<>>) =>
        \A i \in DOMAIN posts : C10_Post(scorer, posts[i], scored[i])

\* a filtered author's post with the keyword written with a capital, under a
\* weighted base: weight 1/2 + 1
C10_Witness ==
    /\ scorer.kind = "Filtered" /\ scorer.base_scorer \in WeightedFamily
    /\ scored # <<>>
    /\ posts[1].acct = Alice
    /\ posts[1].content = TextMatch
    /\ posts[1].followers_count = 4
    /\ scored[1].weight = FDiv(RInt(3), RInt(2))

(***************************************************************************)
(* C11                                                                     *)
(***************************************************************************)
\* the author is in the filtered set and the text has a keyword
C11_Matched(self, post) ==
    AuthorFiltered(self, post) /\ FoldedWords(post.content) \cap self.keywords # {}

C11_Post(self, post, obs) ==
    /\ C11_Matched(self, post) =>
           /\ RGt(obs.score, FMul(base_score(self.base_scorer, post), obs.weight))
           /\ RGe(obs.score, RInt(0))
    /\ ~AuthorFiltered(self, post) =>
           obs.score = FMul(base_score(self.base_scorer, post), obs.weight)

\* C11: under a FilteredScorer the score of a filtered author's post with a
\* keyword is base.score(post) x weight(post) plus a strictly positive boost,
\* so strictly greater than base.score(post) x weight(post) and never
\* negative; the score of a post of any other author is
\* base.score(post) x weight(post).
C11_PositiveBoost ==
    (scorer.kind = "Filtered" /\ scored # <<>>) =>
        \A i \in DOMAIN posts : C11_Post(scorer, posts[i], scored[i])

(***************************************************************************)
(* run.py: run(), from the fetched posts and boosts to the output stage    *)
(***************************************************************************)
\* filtered_accounts of run()
run_filtered_accounts ==
    {<<"EEAS", "@", "social.network.europa.eu">>,
     <<"EU_UNGeneva", "@", "respublicae.eu">>,
     <<"rmartinnielsen", "@", "mastodon.social">>}

keywords_mixedcase ==
    {<<"TPNW">>, <<"nuclear">>, <<"missiles">>, <<"missile">>, <<"nonprolifwp">>,
     <<"armscontrol">>, <<"nonproliferation">>, <<"autonomousweapons">>,
     <<"killerrobots">>, <<"SALW">>, <<"ConferenceOnDisarmament">>,
     <<"chemicalweapons">>, <<"chemicalweapon">>, <<"nuclearweapons">>,
     <<"disarmament">>, <<"opcw">>, <<"landmines">>, <<"biowarfare">>,
     <<"biologicalweapons">>, <<"ICBM">>, <<"ICBMs">>}

\* keywords of run()
run_keywords == {lower(keyword) : keyword \in keywords_mixedcase}

\* ScoredPost.content_text
content_text(scored_post) == get_text(scored_post.content)

\* ScoredPost.matches_keywords
matches_keywords(scored_post, keywords) ==
    findall_words(lower(content_text(scored_post))) \cap keywords # {}

\* filtered_posts, filtered_boosts
filtered_list(ps) ==
    SelectSeq(ps, LAMBDA post :
        post.acct \notin run_filtered_accounts
            \/ matches_keywords(post, run_keywords))

\* [post for post in ps if post.get_score(scorer) > 0.0]
drop_zeroes(ps, scr) ==
    SelectSeq(ps, LAMBDA post : RGt(get_score(post, scr), RInt(0)))

\* the posts with their sort keys, post.get_score(scorer), taken once each
keyed(ps, scr) ==
    [i \in DOMAIN ps |-> [post |-> ps[i], key |-> get_score(ps[i], scr)]]

\* x put into rest, which is sorted by key descending, after the posts of
\* a greater key and before those of the same key or a smaller one
sorted_put(x, rest) ==
    sorted_insert(x, rest,
        Cardinality({i \in DOMAIN rest : RGt(rest[i].key, x.key)}))

RECURSIVE sorted_keyed(_)
sorted_keyed(ks) ==
    IF ks = <<>> THEN <<>>
    ELSE sorted_put(Head(ks), sorted_keyed(Tail(ks)))

\* the posts without their keys
unkeyed(ks) ==
    IF ks = <<>> THEN <<>> ELSE [i \in DOMAIN ks |-> ks[i].post]

\* sorted(ps, key = lambda post: post.get_score(scorer), reverse = True):
\* stable, so posts of equal score keep their order
sorted_reverse(ps, scr) == unkeyed(sorted_keyed(keyed(ps, scr)))

\* the list taken from its end backwards
backwards(ps) == [i \in DOMAIN ps |-> ps[Len(ps) + 1 - i]]

\* the kept posts sorted from the last fetched to the first
threshold_list_backwards(ps, scr) ==
    sorted_reverse(backwards(drop_zeroes(filtered_list(ps), scr)), scr)

\* threshold_posts, threshold_boosts: sorted_..._drop_zeroes sorted again
threshold_list(ps, scr) ==
    sorted_reverse(sorted_reverse(drop_zeroes(filtered_list(ps), scr), scr), scr)

(***************************************************************************)
(* The csv file of toots to re-share, icymibot_cache_to_boost.csv          *)
(*                                                                         *)
(* A csv file is "missing", "blank" (no columns to parse: zero bytes or a  *)
(* lone line end) or a "table", a header line followed by its rows.  A row *)
(* of the file holds text; a row of a DataFrame holds cells, and a cell of *)
(* acct or of link_url is <<>> when it is null (NaN) and <<text>>          *)
(* otherwise.  The columns from_twitter and created_at, and the column     *)
(* score that run() adds, are carried along with toot_id, are read by no   *)
(* operation and are left out.                                             *)
(***************************************************************************)
File(state, rows) == [state |-> state, rows |-> rows]

DataFrame(columns, rows) == [columns |-> columns, rows |-> rows]

Queue(file, base, calls, built, boosting) ==
    [file |-> file, base |-> base, calls |-> calls, built |-> built,
     boosting |-> boosting]

\* models.py, link_urls: the href of every <a> that has no class
RECURSIVE link_urls(_)
link_urls(anchors) ==
    IF anchors = <<>> THEN <<>>
    ELSE IF Head(anchors).class = ""
         THEN <<Head(anchors).href>> \o link_urls(Tail(anchors))
         ELSE link_urls(Tail(anchors))

\* the <a> elements of the content of a post; a post whose content is given
\* as text alone has none
anchors_of(post) == IF "anchors" \in DOMAIN post THEN post.anchors ELSE <<>>

\* post.link_urls()[0] if post.link_urls() else ''
first_link(post) ==
    IF link_urls(anchors_of(post)) # <<>> THEN Head(link_urls(anchors_of(post)))
    ELSE ""

\* the cells of one post: toot_id, acct, link_url
cells_of(post) ==
    [toot_id |-> post.id, acct |-> <<post.acct>>, link_url |-> <<first_link(post)>>]

\* pd.DataFrame([{...} for post in context['posts']]): one row per post,
\* and no columns at all when there is no post
to_boost_df(context_posts) ==
    DataFrame(context_posts # <<>>,
              [i \in DOMAIN context_posts |-> cells_of(context_posts[i])])

\* a field of the file as pd.read_csv returns it: an empty field is null
read_cell(text) == IF text = "" THEN <<>> ELSE <<text>>

\* a cell as to_csv writes it: null is written as an empty field
write_cell(cell) == IF cell = <<>> THEN "" ELSE cell[1]

\* the same for an account name, which is a sequence of tokens
read_name(text) == IF text = <<>> THEN <<>> ELSE <<text>>

write_name(cell) == IF cell = <<>> THEN <<>> ELSE cell[1]

\* pd.read_csv(filename)
read_csv(file) ==
    IF file.state = "missing" THEN Raised("FileNotFoundError")
    ELSE IF file.state = "blank" THEN Raised("EmptyDataError")
    ELSE Returned(DataFrame(TRUE,
             [i \in DOMAIN file.rows |->
                 [file.rows[i] EXCEPT !.acct = read_name(@),
                                      !.link_url = read_cell(@)]]))

\* df.to_csv(filename, index=False)
to_csv(df) ==
    IF ~df.columns THEN File("blank", <<>>)
    ELSE File("table", [i \in DOMAIN df.rows |->
                           [df.rows[i] EXCEPT !.acct = write_name(@),
                                              !.link_url = write_cell(@)]])

\* one row of self.combine_first(other) whose label is in both frames: the
\* cell of self unless it is null
combine_row(mine, theirs) ==
    [mine EXCEPT !.acct = IF @ # <<>> THEN @ ELSE theirs.acct,
                 !.link_url = IF @ # <<>> THEN @ ELSE theirs.link_url]

\* self.combine_first(other): the rows are labelled 0, 1, ... in both
\* frames, and the result has one row for every label of either
combine_first(self, other) ==
    DataFrame(self.columns \/ other.columns,
              [i \in 1..(IF Len(self.rows) >= Len(other.rows)
                         THEN Len(self.rows) ELSE Len(other.rows)) |->
                  IF i > Len(self.rows) THEN other.rows[i]
                  ELSE IF i > Len(other.rows) THEN self.rows[i]
                  ELSE combine_row(self.rows[i], other.rows[i])])

\* api.py, build_boost_file: the file it writes
build_boost_written(oldboosts, context_posts) ==
    IF oldboosts.raised = ""
    THEN to_csv(combine_first(oldboosts.value, to_boost_df(context_posts)))
    ELSE to_csv(to_boost_df(context_posts))

build_boost_file(file, context_posts) ==
    build_boost_written(read_csv(file), context_posts)

(***************************************************************************)
(* run.py: run(), from bucket_candidates to the end                        *)
(***************************************************************************)
\* the tokens of the account names, in the order of Python's str <
TokenOrder ==
    <<"@", "EEAS", "EU_UNGeneva", "alice", "bob", "h1", "h2", "h3",
      "mastodon.social", "respublicae.eu", "rmartinnielsen",
      "social.network.europa.eu">>

TokenRank(tok) == CHOOSE i \in DOMAIN TokenOrder : TokenOrder[i] = tok

\* a < b for two account names
RECURSIVE str_lt(_, _)
str_lt(a, b) ==
    IF b = <<>> THEN FALSE
    ELSE IF a = <<>> THEN TRUE
    ELSE IF Head(a) # Head(b) THEN TokenRank(Head(a)) < TokenRank(Head(b))
    ELSE str_lt(Tail(a), Tail(b))

\* the accounts of the candidates, and the k-th of them in ascending order
group_keys(threshold_posts) ==
    {threshold_posts[i].acct : i \in DOMAIN threshold_posts}

group_key(keys, k) ==
    CHOOSE a \in keys : Cardinality({b \in keys : str_lt(b, a)}) = k - 1

\* the first candidate of an account
group_first(threshold_posts, acct) ==
    threshold_posts[CHOOSE i \in DOMAIN threshold_posts :
                        /\ threshold_posts[i].acct = acct
                        /\ \A j \in 1..(i - 1) : threshold_posts[j].acct # acct]

\* bucket_candidates.groupby('acct').first(): one row for each account, the
\* accounts in ascending order, labelled by the account; no cell of a
\* candidate is null, so the row of an account is that of its first candidate
groupby_first(threshold_posts, keys) ==
    [k \in 1..Cardinality(keys) |->
        cells_of(group_first(threshold_posts, group_key(keys, k)))]

\* bucket_candidates_unique[:3]
first_rows(rows, n) == SubSeq(rows, 1, IF Len(rows) < n THEN Len(rows) ELSE n)

bucket_candidates_cream(threshold_posts) ==
    first_rows(groupby_first(threshold_posts, group_keys(threshold_posts)), 3)

\* a row of bucket_candidates_cream as a row of oldboosts_df.combine_first:
\* acct is the label of the row, so the column acct of the result is null
cream_row(row) == [row EXCEPT !.acct = <<>>]

\* oldboosts_df.combine_first(bucket_candidates_cream): the rows of the file
\* are labelled 0, 1, ... and those of the candidates by account, so no label
\* is in both frames and the result is the rows of the file followed by the
\* candidates'
combine_first_cream(self, cream) ==
    DataFrame(TRUE, self.rows \o [k \in DOMAIN cream |-> cream_row(cream[k])])

\* run.py:268-273 with the file as render_digest left it: to_boost_df is
\* bound only when the file could be read
to_boost_written(file, cream, oldboosts) ==
    IF oldboosts.raised = ""
    THEN [raised |-> "",
          file |-> to_csv(combine_first_cream(oldboosts.value, cream))]
    ELSE [raised |-> "UnboundLocalError", file |-> file]

to_boost_rewritten(file, cream) == to_boost_written(file, cream, read_csv(file))

\* render_digest: "html" writes index.html, "bot" calls build_boost_file
render_digest(file, context_posts, output_type) ==
    IF output_type = "bot" THEN build_boost_file(file, context_posts) ELSE file

\* a run that ended before the output stage
Ended(e, file) ==
    [raised |-> e, handed |-> FALSE, posts |-> <<>>, boosts |-> <<>>,
     rendered_at |-> 0, file |-> file]

\* render_digest(context = ...) was called and run.py:268-273 followed
Rendered(threshold_posts, threshold_boosts, written, now) ==
    [raised |-> written.raised, handed |-> TRUE, posts |-> threshold_posts,
     boosts |-> threshold_boosts, rendered_at |-> now, file |-> written.file]

\* run() from bucket_candidates on: groupby('acct') raises KeyError on the
\* frame of no candidates, which has no columns
build_digest(threshold_posts, threshold_boosts, e, file, now) ==
    IF threshold_posts = <<>> THEN Ended("KeyError", file)
    ELSE IF Len(threshold_posts) = 0 /\ Len(threshold_boosts) = 0
         THEN Ended("SystemExit", file)
         ELSE Rendered(threshold_posts, threshold_boosts,
                       to_boost_rewritten(
                           render_digest(file, threshold_posts, e.output_type),
                           bucket_candidates_cream(threshold_posts)),
                       now)

\* run() after fetch_posts_and_boosts returned ps, bs; e is what the run
\* finds in the account's own timeline and the output type, file the queue
\* file, now the clock
run(ps, bs, scr, e, file, now) ==
    IF ~e.myboosts THEN Ended("KeyError", file)
    ELSE build_digest(threshold_list(ps, scr), threshold_list(bs, scr), e, file, now)

(***************************************************************************)
(* Pipeline runs                                                           *)
(***************************************************************************)
MaxItems == 3

MaxRuns == 2

Nielsen == <<"rmartinnielsen", "@", "mastodon.social">>

\* the times at which a run can render
Clock == 1..MaxRuns

\* the posts and boosts a pipeline batch is made of
RunPosts ==
    {Info(0, Alice, 4, 63, 63, 0, TextMatch),
     Info(0, Bob, 1, 63, 0, 63, TextOther),
     Info(0, Bob, -1, 0, 0, 0, TextJoined),
     Info(0, Nielsen, 4, 63, 0, 0, TextOther)}

RunBoosts ==
    {Info(0, Nielsen, 4, 63, 63, 0, TextMatch),
     Info(0, AliceFull, 16, 63, 0, 0, TextOther)}

\* the scorers __main__ can construct
RunScorers ==
    {BaseScorer("SimpleScorer"), BaseScorer("ExtendedSimpleWeightedScorer"),
     ConfiguredScorer_init([scorer |-> <<"Simple", "Weighted">>,
                            default_host |-> DefaultHost,
                            amplify_accounts |-> AmplifyTwo])}

\* --threshold as the runs of the model are given it: run() selects with no
\* threshold (run.py:179-180 are comments) and only prints its name
\* (run.py:260), so the least and the greatest stand for the three
RunThresholds == {"LAX", "STRICT"}

\* myboosts: the account's own boosts, fetched or cached, are not empty;
\* output_type: --output
Envs == [myboosts : BOOLEAN, output_type : {"html", "bot"}]

\* an entry queued by an earlier run
Earlier == [toot_id |-> 0, acct |-> Alice, link_url |-> ""]

\* icymibot_cache_to_boost.csv as a run may find it
RunFiles == {File("missing", <<>>), File("blank", <<>>), File("table", <<Earlier>>)}

\* the queue with nothing but its file
Queued(file) == Queue(file, file, <<>>, <<>>, <<>>)

Fetched == Len(posts) + Len(boosts)

\* fetch_posts_and_boosts: posts.append(scored_post)
CollectPost(info) ==
    /\ runs = <<>>
    /\ Fetched < MaxItems
    /\ posts' = Append(posts, [info EXCEPT !.id = Fetched + 1])
    /\ UNCHANGED <<scorer, scored, selected, boosts, threshold, env, queue, runs,
                   fetching, startup>>

\* fetch_posts_and_boosts: boosts.append(scored_post)
CollectBoost(info) ==
    /\ runs = <<>>
    /\ Fetched < MaxItems
    /\ boosts' = Append(boosts, [info EXCEPT !.id = Fetched + 1])
    /\ UNCHANGED <<scorer, posts, scored, selected, threshold, env, queue, runs,
                   fetching, startup>>

\* run() returned or raised: what it handed over, and the file it left
RunEnded(outcome) ==
    /\ runs' = Append(runs, outcome)
    /\ queue' = Queued(outcome.file)

\* one call of run() on the batch
Run(now) ==
    /\ Len(runs) < MaxRuns
    /\ \A r \in DOMAIN runs : runs[r].rendered_at < now
    /\ RunEnded(run(posts, boosts, scorer, env, queue.file, now))
    /\ UNCHANGED <<scorer, posts, scored, selected, boosts, threshold, env,
                   fetching, startup>>

InitRun ==
    /\ scorer \in RunScorers
    /\ posts = <<>>
    /\ scored = <<>>
    /\ selected = NothingSelected
    /\ boosts = <<>>
    /\ threshold \in RunThresholds
    /\ env \in Envs
    /\ runs = <<>>
    /\ queue \in {Queued(file) : file \in RunFiles}
    /\ NoFetching /\ NoStartup

NextRun ==
    \/ \E info \in RunPosts : CollectPost(info)
    \/ \E info \in RunBoosts : CollectBoost(info)
    \/ \E now \in Clock : Run(now)

SpecRun == InitRun /\ [][NextRun]_vars

(***************************************************************************)
(* C12                                                                     *)
(***************************************************************************)
\* the ids of the batch that clear the per-th percentile of its scores >= 0
ClearingIds(batch, sc, per) ==
    {batch[i].id : i \in AtOrAbove(sc, NonNegative(sc), per)}

C12_Cleared(list, batch) ==
    Ids(list) \subseteq
        ClearingIds(batch, scores_of(batch, scorer), PercentileTarget[threshold])

\* C12: every post and every boost a run hands to the output stage has a
\* score >= the configured percentile cutoff of the scored batch it came from.
C12_ThresholdApplied ==
    \A r \in DOMAIN runs : runs[r].handed =>
        /\ C12_Cleared(runs[r].posts, posts)
        /\ C12_Cleared(runs[r].boosts, boosts)

(***************************************************************************)
(* C13                                                                     *)
(***************************************************************************)
\* the place in the fetched batch of the post with this id
PlaceIn(batch, id) == CHOOSE i \in DOMAIN batch : batch[i].id = id

\* the runs that handed their lists to the output stage
Handed == {r \in DOMAIN runs : runs[r].handed}

\* a ranked list with the scores of its items, item by item
C13_OrderedBy(list, batch, sc) ==
    \A k, l \in DOMAIN list : k < l =>
        /\ RGe(sc[k], sc[l])
        /\ sc[k] = sc[l] =>
               PlaceIn(batch, list[k].id) < PlaceIn(batch, list[l].id)

C13_Ordered(list, batch) ==
    C13_OrderedBy(list, batch,
                  [k \in DOMAIN list |-> get_score(list[k], scorer)])

\* C13: the lists of posts and of boosts a run hands to the output stage are
\* sorted by score, descending, and two items of equal score are in the order
\* in which they were fetched.
C13_SortedStable ==
    /\ \A list \in {runs[r].posts : r \in Handed} : C13_Ordered(list, posts)
    /\ \A list \in {runs[r].boosts : r \in Handed} :
           C13_Ordered(list, boosts)

\* three posts handed over: the first fetched scores least, the two fetched
\* after it score the same
C13_Witness ==
    /\ runs # <<>> /\ runs[1].handed
    /\ Len(posts) = 3 /\ Len(runs[1].posts) = 3
    /\ RLt(get_score(posts[1], scorer), get_score(posts[2], scorer))
    /\ get_score(posts[2], scorer) = get_score(posts[3], scorer)
    /\ runs[1].posts = <<posts[2], posts[3], posts[1]>>

(***************************************************************************)
(* C14                                                                     *)
(***************************************************************************)
\* no item of the batch scores above zero (an empty batch included)
C14_NothingPositive(batch) ==
    \A i \in DOMAIN batch : RLe(get_score(batch[i], scorer), RInt(0))

C14_Selection(batch) ==
    posts_meeting_criteria(threshold, batch, scorer) = Returned(<<>>)

\* C14: when the batch is empty or every item scores negative or zero,
\* threshold selection returns an empty list and the run completes normally,
\* with empty posts and boosts lists, instead of ending with an error.
C14_DegenerateNotError ==
    (C14_NothingPositive(posts) /\ C14_NothingPositive(boosts)) =>
        /\ C14_Selection(posts) /\ C14_Selection(boosts)
        /\ \A r \in DOMAIN runs :
               runs[r].raised = "" /\ runs[r].posts = <<>> /\ runs[r].boosts = <<>>

(***************************************************************************)
(* run.py: __main__, from the command line to the call of run()            *)
(***************************************************************************)
\* Threshold.get_name: self.name.lower()
Threshold_get_name(t) ==
    CASE t = "LAX" -> "lax" [] t = "NORMAL" -> "normal" [] t = "STRICT" -> "strict"

\* get_thresholds(): lower-case name -> value
get_thresholds ==
    [nm \in {Threshold_get_name(t) : t \in ThresholdNames} |->
        Threshold[CHOOSE t \in ThresholdNames : Threshold_get_name(t) = nm]]

\* str.upper() on a threshold name
upper(name) ==
    CASE name = "lax" -> "LAX" [] name = "normal" -> "NORMAL"
      [] name = "strict" -> "STRICT" [] name = "bogus" -> "BOGUS"
      [] OTHER -> name

\* get_threshold_from_name: Threshold[name.upper()]
get_threshold_from_name(name) ==
    IF upper(name) \in ThresholdNames THEN Returned(upper(name))
    ELSE Raised("KeyError")

\* check_config_pars: what it ends with, "" when it returns.  pars is what
\* yaml.safe_load made of the file: None for a file without a document, which
\* has no get, and under a key without a value None again, which the loop
\* cannot go through
check_config_pars(pars) ==
    IF pars.is_none THEN "AttributeError"
    ELSE IF pars.has_amplify /\ pars.amplify_none THEN "TypeError"
    ELSE IF pars.has_amplify
            /\ \E acct \in DOMAIN pars.amplify_accounts : SplitLen(acct) # 2
    THEN "SystemExit" ELSE ""

\* ConfiguredScorer.check_params: the message of sys.exit is formatted with
\* two %s and one argument, which raises TypeError
ConfiguredScorer_check_params(pars) ==
    IF pars.scorer \notin (DOMAIN get_scorers) \ {<<"Configured">>}
    THEN "TypeError" ELSE ""

\* ConfiguredScorer(base_scorer = args.scorer, default_host = ..., **vars(args))
ConfiguredScorer_new(pars) ==
    IF ConfiguredScorer_check_params(pars) # ""
    THEN Raised(ConfiguredScorer_check_params(pars))
    ELSE Returned(ConfiguredScorer_init(pars))

\* args.scorer.startswith("Keyword"): a name is a list of words
startswith_Keyword(name) == name # <<>> /\ Head(name) = "Keyword"

\* what the call of KeywordScorer can end with.  No file defines the class:
\* where run.py:22 was served, the name is bound to an object of the loader's
\* choosing, and its call returns ("") or raises
KeywordScorerOutcomes == {"", "TypeError"}

\* KeywordScorer(base_scorer = args.scorer[7:], **vars(args)): where the call
\* returns, the model takes the object to score as the base scorer it was
\* given the name of
KeywordScorer_new(base_scorer, outcome) ==
    IF outcome = "" /\ base_scorer \in DOMAIN get_scorers
    THEN Returned(BaseScorer(get_scorers[base_scorer]))
    ELSE Raised("TypeError")

\* the scorer __main__ constructs (run.py:383-394); scorers[args.scorer]
\* raises KeyError for a name that is not registered
construct_scorer(args, outcome) ==
    IF args.has_amplify
    THEN ConfiguredScorer_new([scorer |-> args.scorer, default_host |-> DefaultHost,
                               amplify_accounts |-> args.amplify_accounts])
    ELSE IF startswith_Keyword(args.scorer)
         THEN KeywordScorer_new(Tail(args.scorer), outcome)
         ELSE IF args.scorer \in DOMAIN get_scorers
              THEN Returned(BaseScorer(get_scorers[args.scorer]))
              ELSE Raised("KeyError")

\* an option: the command line's value, else the config file's, else the
\* parser's default
option(cli, cfg, absent, default) ==
    IF cli # absent THEN cli ELSE IF cfg # absent THEN cfg ELSE default

\* arg_parser.parse_args() after set_defaults(**cfg_pars)
parse_args(input) ==
    [scorer |-> option(input.cli_scorer, input.config.scorer, <<>>,
                       <<"Simple", "Weighted">>),
     threshold |-> option(input.cli_threshold, input.config.threshold, "",
                          "normal"),
     has_amplify |-> input.config.has_amplify,
     amplify_accounts |-> input.config.amplify_accounts]

\* argparse refuses a command-line value that is not one of the choices
choices_ok(input) ==
    /\ input.cli_scorer # <<>> => input.cli_scorer \in DOMAIN get_scorers
    /\ input.cli_threshold # "" => input.cli_threshold \in DOMAIN get_thresholds

\* the config files: what yaml.safe_load returns.  An absent key is <<>>, ""
\* or has_amplify = FALSE; is_none: the file holds no document (it is empty or
\* all comments); amplify_none: amplify_accounts is there without a value
Config(exists, is_none, scorer_name, threshold_name, has_amplify, amplify_none,
       amplify_accounts) ==
    [exists |-> exists, is_none |-> is_none, scorer |-> scorer_name,
     threshold |-> threshold_name, has_amplify |-> has_amplify,
     amplify_none |-> amplify_none, amplify_accounts |-> amplify_accounts]

NoConfig == Config(FALSE, FALSE, <<>>, "", FALSE, FALSE, NoAccounts)

NoDocument == Config(TRUE, TRUE, <<>>, "", FALSE, FALSE, NoAccounts)

AmplifyBare == [a \in {Alice} |-> RInt(2)]

AmplifyTwice == [a \in {AliceFull, <<"bob", "@", "h2", "@", "h3">>} |-> RInt(2)]

\* "alice@" and "@h1": a handle without a host and one without a user, each
\* of which split("@") makes two parts of
AmplifyOneSided == [a \in {<<"alice", "@">>, <<"@", "h1">>} |-> RInt(2)]

\* the scorer names of the config files: none, a registered one, one that
\* starts with "Keyword" and one that is nobody's
ConfigScorers ==
    {<<>>, <<"Extended", "Simple">>, <<"Keyword", "Simple">>, <<"Bogus">>}

ConfigThresholds == {"", "strict", "bogus"}

ConfigFiles ==
    {NoDocument}
    \cup
    {Config(TRUE, FALSE, s, t, FALSE, FALSE, NoAccounts) :
        s \in ConfigScorers, t \in ConfigThresholds}
    \cup
    {Config(TRUE, FALSE, s, t, TRUE, FALSE, m) :
        s \in ConfigScorers, t \in ConfigThresholds,
        m \in {AmplifyOne, AmplifyBare, AmplifyTwice, AmplifyOneSided}}
    \cup
    {Config(TRUE, FALSE, s, t, TRUE, TRUE, NoAccounts) :
        s \in ConfigScorers, t \in ConfigThresholds}

\* the names the def and class statements of api.py and of scorers.py bind
api_names ==
    {"get_full_account_name", "fetch_posts_and_boosts", "fetch_myposts",
     "reboost_toots", "build_boost_file", "boost_toot_from_file"}

scorers_names ==
    {"Weight", "UniformWeight", "InverseFollowerWeight", "Scorer", "SimpleScorer",
     "SimpleWeightedScorer", "ExtendedSimpleScorer", "ExtendedSimpleWeightedScorer",
     "ConfiguredScorer", "FilteredScorer", "get_scorers"}

\* the names the import statements ask for and no file binds
Unbound == {"get_followed_hashtags", "KeywordScorer"}

\* from module import names
import_from(module_names, names) ==
    IF names \subseteq module_names THEN "" ELSE "ImportError"

\* run.py:21
import_api(bound) ==
    import_from(api_names \cup bound,
                {"fetch_posts_and_boosts", "reboost_toots", "fetch_myposts",
                 "build_boost_file"})

\* run.py:22, which runs scorers.py and with it scorers.py:15
import_scorers(bound) ==
    IF import_from(api_names \cup bound,
                   {"get_full_account_name", "get_followed_hashtags"}) # ""
    THEN "ImportError"
    ELSE import_from(scorers_names \cup bound,
                     {"get_scorers", "ConfiguredScorer", "KeywordScorer"})

\* run.py:21-23: what the import statements of run.py end with
imports(bound) ==
    IF import_api(bound) # "" THEN import_api(bound) ELSE import_scorers(bound)

\* a start of the program.  bound: the names api and scorers were given by
\* whoever loaded them before run.py did, beyond those their files bind (none
\* when the interpreter starts on run.py)
Inputs ==
    [bound : SUBSET Unbound,
     cli_scorer : {<<>>, <<"Simple">>, <<"Bogus">>},
     cli_threshold : {"", "lax", "bogus"},
     output_type : {"html", "bot"},
     config : {NoConfig} \cup ConfigFiles,
     output_dir : BOOLEAN,
     environment : BOOLEAN]

NoArgs == [scorer |-> <<>>, threshold |-> "", has_amplify |-> FALSE,
           amplify_accounts |-> NoAccounts]

Started(input) ==
    [input |-> input, pc |-> "import", args |-> NoArgs, error |-> "",
     fetched |-> FALSE, written |-> FALSE]

Stop(e) == startup' = [startup EXCEPT !.pc = "ended", !.error = e]

Goto(pc) == startup' = [startup EXCEPT !.pc = pc]

Rest == <<scorer, posts, scored, selected, boosts, threshold, env, runs, fetching,
         queue>>

\* run.py:21-23: the import statements, ahead of every other statement
Import ==
    /\ startup.pc = "import"
    /\ IF imports(startup.input.bound) = "" THEN Goto("parse")
       ELSE Stop(imports(startup.input.bound))
    /\ UNCHANGED Rest

\* arg_parser.parse_args().config: the first parse of the command line
ParseArgs ==
    /\ startup.pc = "parse"
    /\ IF choices_ok(startup.input) THEN Goto("config") ELSE Stop("SystemExit")
    /\ UNCHANGED Rest

\* add_defaults_from_config, then the second parse
LoadConfig ==
    /\ startup.pc = "config"
    /\ IF startup.input.config.exists /\ check_config_pars(startup.input.config) # ""
       THEN Stop(check_config_pars(startup.input.config))
       ELSE startup' = [startup EXCEPT !.pc = "validate",
                                       !.args = parse_args(startup.input)]
    /\ UNCHANGED Rest

\* the output directory and the environment variables
Validate ==
    /\ startup.pc = "validate"
    /\ IF startup.input.output_dir /\ startup.input.environment
       THEN Goto("scorer") ELSE Stop("SystemExit")
    /\ UNCHANGED Rest

\* the scorer is constructed
Constructed(constructed) ==
    IF constructed.raised # ""
    THEN Stop(constructed.raised) /\ UNCHANGED scorer
    ELSE Goto("threshold") /\ scorer' = constructed.value

ConstructScorer ==
    /\ startup.pc = "scorer"
    /\ \E outcome \in KeywordScorerOutcomes :
           Constructed(construct_scorer(startup.args, outcome))
    /\ UNCHANGED <<posts, scored, selected, boosts, threshold, env, queue, runs, fetching>>

\* get_threshold_from_name(args.threshold), an argument of the call of run
GetThreshold ==
    /\ startup.pc = "threshold"
    /\ IF get_threshold_from_name(startup.args.threshold).raised # ""
       THEN Stop("KeyError") /\ UNCHANGED threshold
       ELSE Goto("run")
            /\ threshold' = get_threshold_from_name(startup.args.threshold).value
    /\ UNCHANGED <<scorer, posts, scored, selected, boosts, env, queue, runs, fetching>>

\* what fetch_posts_and_boosts returns to a run __main__ started
MainBatches ==
    {<<>>,
     <<Info(1, Alice, 4, 63, 63, 0, TextMatch)>>,
     <<Info(1, Alice, 4, 63, 63, 0, TextMatch), Info(2, Bob, 1, 63, 0, 63, TextOther)>>}

\* run() is called: what it finds, the timeline, the account's own boosts and
\* icymibot_cache_to_boost.csv
StartRun(batch, myboosts, file) ==
    /\ startup.pc = "run"
    /\ startup' = [startup EXCEPT !.pc = "fetched", !.fetched = TRUE]
    /\ posts' = batch
    /\ env' = [myboosts |-> myboosts, output_type |-> startup.input.output_type]
    /\ queue' = Queued(file)
    /\ UNCHANGED <<scorer, scored, selected, boosts, threshold, runs, fetching>>

\* run() has returned or raised: the process ends with what it raised, the
\* digest or the file written where run() got as far as render_digest
MainEnded(outcome) ==
    /\ startup' = [startup EXCEPT !.pc = "ended", !.written = outcome.handed,
                                  !.error = outcome.raised]
    /\ RunEnded(outcome)

\* run(), from the fetched batch to its end
EndRun ==
    /\ startup.pc = "fetched"
    /\ MainEnded(run(posts, boosts, scorer, env, queue.file, 1))
    /\ UNCHANGED <<scorer, posts, scored, selected, boosts, threshold, env, fetching>>

InitMain ==
    /\ scorer = <<>>
    /\ posts = <<>>
    /\ scored = <<>>
    /\ selected = NothingSelected
    /\ NoPipeline /\ NoFetching /\ NoQueue
    /\ startup \in {Started(input) : input \in Inputs}

NextMain ==
    \/ Import
    \/ ParseArgs
    \/ LoadConfig
    \/ Validate
    \/ ConstructScorer
    \/ GetThreshold
    \/ \E batch \in MainBatches, myboosts \in BOOLEAN, file \in RunFiles :
           StartRun(batch, myboosts, file)
    \/ EndRun

SpecMain == InitMain /\ [][NextMain]_vars

(***************************************************************************)
(* C15                                                                     *)
(***************************************************************************)
RegisteredNames ==
    {<<"Simple">>, <<"Simple", "Weighted">>, <<"Extended", "Simple">>,
     <<"Extended", "Simple", "Weighted">>}

ThresholdWords == {"lax", "normal", "strict"}

\* the name in force: the command line's, else the config file's, else dflt
InForce(cli, cfg, absent, dflt) ==
    IF cli # absent THEN cli ELSE IF cfg # absent THEN cfg ELSE dflt

\* a handle of the form user@host: one "@", a user before it and a host
\* after it
C15_UserAtHost(acct) ==
    /\ Cardinality({i \in DOMAIN acct : acct[i] = "@"}) = 1
    /\ Head(acct) # "@"
    /\ acct[Len(acct)] # "@"

C15_ConfigError(input) ==
    \/ input.cli_threshold \notin ThresholdWords \cup {""}
    \/ input.cli_scorer \notin RegisteredNames \cup {<<>>}
    \/ InForce(input.cli_threshold, input.config.threshold, "", "normal")
           \notin ThresholdWords
    \/ InForce(input.cli_scorer, input.config.scorer, <<>>, <<"Simple", "Weighted">>)
           \notin RegisteredNames
    \/ /\ input.config.exists /\ input.config.has_amplify
       /\ \E acct \in DOMAIN input.config.amplify_accounts :
              ~C15_UserAtHost(acct)

\* the errors the checks of the configuration end the run with: sys.exit,
\* the KeyError of an unknown name, the TypeError of check_params
C15_Surfaced == {"SystemExit", "KeyError", "TypeError"}

\* C15: with an unknown threshold name, a base scorer name that is not
\* registered, or an amplify-account handle not of the form user@host, the
\* program never fetches a post or writes a digest or queue file, and where
\* it has ended it has ended with the error of a check of its configuration.
C15_ConfigErrorFatal ==
    C15_ConfigError(startup.input) =>
        /\ ~startup.fetched /\ ~startup.written
        /\ startup.pc \notin {"run", "fetched"}
        /\ startup.pc = "ended" => startup.error \in C15_Surfaced

(***************************************************************************)
(* api.py: fetch_posts_and_boosts                                          *)
(* A status is a record: url, reblog (<<>> for None, else <<the reshared   *)
(* status>>), reblogged, favourited, bookmarked, acct and note (tokens),   *)
(* age (now - created_at, in hours), filtered (a server-side filter        *)
(* applies to it).                                                         *)
(***************************************************************************)
\* str.lstrip(): the blanks before the first token that is none
RECURSIVE lstrip(_)
lstrip(text) ==
    IF text # <<>> /\ Head(text) = " " THEN lstrip(Tail(text)) ELSE text

\* str.rstrip(): the blanks after the last token that is none
RECURSIVE rstrip(_)
rstrip(text) ==
    IF text # <<>> /\ text[Len(text)] = " "
    THEN rstrip(SubSeq(text, 1, Len(text) - 1)) ELSE text

\* str.strip(): blanks at both ends dropped, those inside kept
strip(text) == rstrip(lstrip(text))

\* the local filters of the loop body, on the post looked at
local_filters(info, mastodon_acct, hours) ==
    /\ ~info.reblogged
    /\ ~info.favourited
    /\ ~info.bookmarked
    /\ lower(strip(info.acct)) # mastodon_acct
    /\ "#noindex" \notin Range(lower(info.note))
    /\ "#nobot" \notin Range(lower(info.note))
    /\ info.age < hours

\* the post looked at: the reshared post for a reshare
looked_at(post) == IF post.reblog # <<>> THEN post.reblog[1] ELSE post

\* scored_post.url not in seen_post_urls
not_seen(url, f) == url \notin f.seen_post_urls

\* the local filters that test the status of the timeline itself
accepted_wrapper(post, f) ==
    /\ not_seen(looked_at(post).url, f)
    /\ local_filters(post, f.mastodon_acct, f.hours)

accepted(post, f) ==
    /\ not_seen(looked_at(post).url, f)
    /\ local_filters(looked_at(post), f.mastodon_acct, f.hours)

\* one turn of "for post in filtered_response" on the lists l = <<posts, boosts>>
one_post(post, f, l) ==
    IF accepted(post, f)
    THEN <<[f EXCEPT !.total_posts_seen = @ + 1,
                     !.seen_post_urls = @ \cup {looked_at(post).url}],
           IF post.reblog # <<>>
           THEN <<l[1], Append(l[2], looked_at(post))>>
           ELSE <<Append(l[1], looked_at(post)), l[2]>> >>
    ELSE <<[f EXCEPT !.total_posts_seen = @ + 1], l>>

\* "for post in filtered_response": fl = <<f, <<posts, boosts>> >>
RECURSIVE for_posts(_, _)
for_posts(filtered_response, fl) ==
    IF filtered_response = <<>> THEN fl
    ELSE for_posts(Tail(filtered_response),
                   one_post(Head(filtered_response), fl[1], fl[2]))

\* mastodon_client.filters_apply(response, filters, "home")
filters_apply(response) == SelectSeq(response, LAMBDA post : ~post.filtered)

filtered_response(f) ==
    IF f.filters THEN filters_apply(f.response) ELSE f.response

\* "while response and total_posts_seen <= timeline_limit"
loop_test(f) == f.response # <<>> /\ f.total_posts_seen <= f.timeline_limit

MaxPage == 2

MaxLimit == 4

Status(url, reblog, acct, note, age, flags) ==
    [url |-> url, reblog |-> reblog, acct |-> acct, note |-> note, age |-> age,
     reblogged |-> "reblogged" \in flags, favourited |-> "favourited" \in flags,
     bookmarked |-> "bookmarked" \in flags, filtered |-> "filtered" \in flags]

Hours == 12

PostA == Status("u1", <<>>, <<"bob", "@", "h2">>, <<"hello">>, 1, {})

PostB == Status("u2", <<>>, <<"carol">>, <<>>, 11, {})

PostC == Status("u4", <<>>, <<"dave">>, <<>>, 2, {})

\* a timeline: two posts, a reshare of the first, a reshare of a favourited
\* post, the viewer's own favourited reshare of a third post, one status for
\* each local filter and for the server-side filter, a post of an account
\* whose name has the viewer's twice with a blank between, and two posts of
\* the viewer's under other spellings of the name
Timeline ==
    <<PostA,
      Status("w1", <<PostA>>, <<"erin">>, <<>>, 1, {}),
      Status("w3", <<PostC>>, <<" ", "Me">>, <<"#nobot">>, 30, {"favourited", "reblogged"}),
      Status("u5", <<>>, <<" ", "Me">>, <<>>, 1, {}),
      Status("u12", <<>>, <<"Me", " ", "Me">>, <<>>, 1, {}),
      Status("u11", <<>>, <<"gina">>, <<>>, 1, {"filtered"}),
      PostB,
      Status("w2", <<Status("u3", <<>>, <<"carol">>, <<>>, 1, {"favourited"})>>,
             <<"erin">>, <<>>, 1, {}),
      Status("u6", <<>>, <<"frank">>, <<"no", "#NoBot">>, 1, {}),
      Status("u7", <<>>, <<"frank">>, <<"#noindex">>, 1, {}),
      Status("u8", <<>>, <<"gina">>, <<>>, 1, {"reblogged"}),
      Status("u9", <<>>, <<"gina">>, <<>>, 1, {"bookmarked"}),
      Status("u10", <<>>, <<"gina">>, <<>>, 12, {}),
      Status("u13", <<>>, <<"ME">>, <<>>, 1, {}),
      Status("u14", <<>>, <<" ", "mE", " ">>, <<>>, 1, {})>>

\* the timelines: Timeline read from any of its statuses on, forwards or
\* backwards, as far as its end
Timelines ==
    {SubSeq(Timeline, k, Len(Timeline)) : k \in 1..Len(Timeline) + 1}
    \cup {SubSeq(backwards(Timeline), k, Len(Timeline)) : k \in 1..Len(Timeline)}

\* the sizes a page of the timeline tl can have: none is empty before the
\* timeline has run out
PageSizes(tl) == IF tl = <<>> THEN {0} ELSE 1..(IF Len(tl) < MaxPage THEN Len(tl) ELSE MaxPage)

\* fetch_posts_and_boosts up to the first test of the loop: the first page
\* has n statuses
Fetching(tl, n, filters, timeline_limit) ==
    [pc |-> "loop", response |-> SubSeq(tl, 1, n),
     timeline |-> SubSeq(tl, n + 1, Len(tl)), filters |-> filters,
     timeline_limit |-> timeline_limit, hours |-> Hours,
     mastodon_acct |-> lower(strip(<<"Me", " ">>)),
     seen_post_urls |-> {}, total_posts_seen |-> 0]

\* the state after the for loop over the page (fl) and fetch_previous, which
\* returns the n statuses before it
Turned(fl, n) ==
    /\ fetching' = [fl[1] EXCEPT !.response = SubSeq(fetching.timeline, 1, n),
                                 !.timeline = SubSeq(fetching.timeline, n + 1,
                                                     Len(fetching.timeline))]
    /\ posts' = fl[2][1]
    /\ boosts' = fl[2][2]

\* one turn of the while loop
Page(n) ==
    /\ fetching.pc = "loop"
    /\ loop_test(fetching)
    /\ Turned(for_posts(filtered_response(fetching), <<fetching, <<posts, boosts>> >>), n)
    /\ UNCHANGED <<scorer, scored, selected, threshold, env, queue, runs, startup>>

\* return posts, boosts, total_posts_seen
Return ==
    /\ fetching.pc = "loop"
    /\ ~loop_test(fetching)
    /\ fetching' = [fetching EXCEPT !.pc = "returned"]
    /\ UNCHANGED <<scorer, posts, scored, selected, boosts, threshold, env, queue,
                   runs, startup>>

InitFetch ==
    /\ scorer = <<>>
    /\ posts = <<>>
    /\ scored = <<>>
    /\ selected = NothingSelected
    /\ NoPipeline /\ NoStartup /\ NoQueue
    /\ \E tl \in Timelines, filters \in BOOLEAN, timeline_limit \in {1, MaxLimit} :
           \E n \in PageSizes(tl) :
               fetching = Fetching(tl, n, filters, timeline_limit)

NextFetch ==
    \/ \E n \in PageSizes(fetching.timeline) : Page(n)
    \/ Return

SpecFetch == InitFetch /\ [][NextFetch]_vars

(***************************************************************************)
(* C17                                                                     *)
(***************************************************************************)
\* the posts and the boosts collected so far, together
Collected == posts \o boosts

\* n blanks
Blanks(n) == [k \in 1..n |-> " "]

\* the account is the viewer's: its name, in capitals or not, with blanks
\* before and after it at most
C17_Own(acct) ==
    \E before, after \in 0..Len(acct), name \in {"Me", "me", "ME", "mE"} :
        acct = Blanks(before) \o <<name>> \o Blanks(after)

C17_Item(item) ==
    /\ item.reblog = <<>>
    /\ ~C17_Own(item.acct)
    /\ ~item.reblogged /\ ~item.favourited /\ ~item.bookmarked
    /\ Range(item.note) \cap {"#noindex", "#nobot", "#NoBot"} = {}
    /\ ~(item.age > Hours)

\* C17: whatever pages fetch_posts_and_boosts has gone through, no two items
\* of the posts and boosts lists together have the same URL, and every item
\* is a post or the original of a reshare that is not the viewer's own, not
\* reshared, favourited or bookmarked by the viewer, not by an account whose
\* bio has #noindex or #nobot, and not older than the time window.
C17_DedupedAndFiltered ==
    /\ \A i, j \in DOMAIN Collected :
           Collected[i].url = Collected[j].url => i = j
    /\ \A i \in DOMAIN Collected : C17_Item(Collected[i])

\* returned after a post, a reshare of that post (dropped) and the viewer's
\* own favourited reshare of another post (kept, as a boost), the viewer's
\* own post (dropped) and the post of the account "Me Me" (kept)
C17_Witness ==
    /\ fetching.pc = "returned"
    /\ fetching.total_posts_seen >= 5
    /\ posts # <<>> /\ posts[1] = PostA
    /\ \E i \in DOMAIN posts : posts[i].acct = <<"Me", " ", "Me">>
    /\ boosts = <<PostC>>

(***************************************************************************)
(* C20                                                                     *)
(***************************************************************************)
\* C20: when fetch_posts_and_boosts returns, the number of posts examined
\* (total_posts_seen) does not exceed timeline_limit, for every page size and
\* every sequence of pages.
C20_WithinLimit ==
    fetching.pc = "returned" =>
        fetching.total_posts_seen <= fetching.timeline_limit

(***************************************************************************)
(* C18                                                                     *)
(***************************************************************************)
\* the display names of the base scorers
BaseNames ==
    [SimpleScorer |-> <<"Simple">>,
     SimpleWeightedScorer |-> <<"Simple", "Weighted">>,
     ExtendedSimpleScorer |-> <<"Extended", "Simple">>,
     ExtendedSimpleWeightedScorer |-> <<"Extended", "Simple", "Weighted">>]

\* the name begins with the prefix
Begins(nm, prefix) == Len(nm) > 0 /\ nm[1] = prefix

C18_Name(self) ==
    CASE self.kind = "Base"       -> get_name(self) = BaseNames[self.base_scorer]
      [] self.kind = "Configured" ->
             get_name(self) = <<"Configured">> \o BaseNames[self.base_scorer]
      [] self.kind = "Filtered"   ->
             get_name(self) = <<"Filtered">> \o BaseNames[self.base_scorer]

\* C18: the name of a scorer begins with Filtered if and only if it is a
\* FilteredScorer, so posts_meeting_criteria takes the filtered path (on which
\* it calls is_filtered) exactly for FilteredScorer; the names of Configured
\* and Filtered scorers are the prefix followed by the base scorer's name.
C18_RoutingByName ==
    /\ Begins(get_name(scorer), "Filtered") <=> scorer.kind = "Filtered"
    /\ C18_Name(scorer)
    /\ \A t \in ThresholdNames : Ran(t) =>
           (ResultOf(t).raised = "AttributeError" <=> scorer.kind = "Filtered")

\* a FilteredScorer over SimpleWeighted whose batch went down the filtered path
C18_Witness ==
    /\ scorer.kind = "Filtered"
    /\ scorer.base_scorer = "SimpleWeightedScorer"
    /\ Ran("LAX")
    /\ ResultOf("LAX").raised = "AttributeError"

(***************************************************************************)
(* C23                                                                     *)
(***************************************************************************)
\* the positions of the batch whose score is the greatest
C23_Best(sc) == {i \in DOMAIN sc : \A j \in DOMAIN sc : RLe(sc[j], sc[i])}

\* value is the batch with some posts left out, the others in batch order
C23_SubList(value) ==
    /\ \A k \in DOMAIN value :
           value[k].id \in DOMAIN posts /\ value[k] = posts[value[k].id]
    /\ \A k \in DOMAIN value : \A l \in DOMAIN value :
           k < l => value[k].id < value[l].id

C23_Result(sc, r) ==
    /\ r.raised = ""
    /\ C23_SubList(r.value)
    /\ NonNegative(sc) # {} =>
           /\ r.value # <<>>
           /\ \A i \in C23_Best(sc) : posts[i].id \in Ids(r.value)

\* C23: with a scorer that is not Filtered-family, the result of
\* posts_meeting_criteria is a sub-list of the batch in batch order, and when
\* some post scores >= 0 it is not empty and holds every post of the greatest
\* score, for each of the three targets.
C23_BestAlwaysKept ==
    scorer.kind # "Filtered" =>
        \A t \in ThresholdNames : Ran(t) => C23_Result(ScoresNow, ResultOf(t))

(***************************************************************************)
(* api.py: the queue of toots to re-share                                  *)
(*                                                                         *)
(*   queue.file      icymibot_cache_to_boost.csv                           *)
(*   queue.base      the file as build_boost_file or run() last wrote it   *)
(*                   (or as it was at the start)                           *)
(*   queue.calls     the calls of boost_toot_from_file ended since         *)
(*   queue.built     the last call of build_boost_file: the posts of the   *)
(*                   context and the file it found                         *)
(*   queue.boosting  the call of boost_toot_from_file under way, if any:   *)
(*                   the statement it has reached, the file it found and   *)
(*                   the DataFrame it read                                 *)
(*                                                                         *)
(* No file of the repository calls boost_toot_from_file (the call of       *)
(* reboost_toots at run.py:43 is a comment), so it runs in a process of    *)
(* its own; the file is not locked, and a run that ends in                 *)
(* build_boost_file can write it while mastodon_client.status_reblog is    *)
(* waiting for the server.                                                 *)
(***************************************************************************)
\* the posts of one context at most
MaxContext == 2

\* the calls of boost_toot_from_file followed between two writes of the queue
MaxCalls == 3

\* the variables the queue leaves alone
others_queue == <<scorer, posts, scored, selected, boosts, threshold, env,
                  runs, fetching, startup>>

\* to_boost_df[1:]
rest_to_boost(df) == DataFrame(df.columns, Tail(df.rows))

\* one call of boost_toot_from_file that has ended: the file it found, the
\* toot_id it passed to status_reblog (if it came that far), the exception
\* status_reblog raised (if any), the file as it was when the call came to
\* its last statement and the file as the call left it
Call(found, status_reblog, raised, before, left) ==
    [found |-> found, status_reblog |-> status_reblog, raised |-> raised,
     before |-> before, left |-> left]

\* a call of boost_toot_from_file under way
Boosting(pc, found, df) ==
    [pc |-> pc, found |-> found, to_boost_df |-> df]

\* api.py:196-202: the file is read; the call returns when the read raises
\* and when the table has no row, and goes on to status_reblog otherwise
boost_from(file, read) ==
    IF read.raised # "" THEN Boosting("return", file, <<>>)
    ELSE IF Len(read.value.rows) = 0 THEN Boosting("return", file, <<>>)
    ELSE Boosting("status_reblog", file, <<read.value>>)

boost_toot_from_file(file) == boost_from(file, read_csv(file))

\* api.py:205: the toot_id passed to mastodon_client.status_reblog
to_boost(boosting) == boosting.to_boost_df[1].rows[1].toot_id

\* what status_reblog does: it returns, or it raises one of Mastodon.py's
\* errors (network, API, rate limit), all of them MastodonError
StatusReblogOutcomes == {"", "MastodonError"}

Anchor(class, href) == [class |-> class, href |-> href]

\* a toot without a link, one with a link after a mention, one with two
\* links
QueuePosts ==
    {[id |-> 1, acct |-> Alice, anchors |-> <<>>],
     [id |-> 3, acct |-> Bob,
      anchors |-> <<Anchor("u-url mention", "https://h1/@alice"),
                    Anchor("", "https://a.example/")>>],
     [id |-> 4, acct |-> Alice,
      anchors |-> <<Anchor("", "https://b.example/"),
                    Anchor("", "https://a.example/")>>]}

\* the lists context['posts'] is drawn from: no post twice in a list
Contexts ==
    UNION {{c \in [1..n -> QueuePosts] :
               \A i, j \in 1..n : c[i] = c[j] => i = j} : n \in 0..MaxContext}

\* status 1: render_digest with output_type "bot" calls build_boost_file;
\* a call of boost_toot_from_file under way in another process goes on
BuildBoostFile(context_posts) ==
    /\ queue' = Queue(build_boost_file(queue.file, context_posts),
                      build_boost_file(queue.file, context_posts),
                      <<>>,
                      <<[posts |-> context_posts, found |-> queue.file]>>,
                      queue.boosting)
    /\ UNCHANGED others_queue

\* the call has ended
Ended_call(call) ==
    /\ queue' = [queue EXCEPT !.calls = Append(@, call), !.boosting = <<>>]
    /\ UNCHANGED others_queue

\* api.py:196-203: boost_toot_from_file reads the file
BoostRead(boosting) ==
    IF boosting.pc = "return"
    THEN Ended_call(Call(queue.file, <<>>, "", queue.file, queue.file))
    ELSE /\ queue' = [queue EXCEPT !.boosting = <<boosting>>]
         /\ UNCHANGED others_queue

BoostTootFromFile ==
    /\ queue.boosting = <<>>
    /\ Len(queue.calls) < MaxCalls
    /\ BoostRead(boost_toot_from_file(queue.file))

\* api.py:205: status_reblog returns, or it raises and the exception ends
\* the call before the file is written
StatusReblog(boosting, outcome) ==
    IF outcome = ""
    THEN /\ queue' = [queue EXCEPT !.boosting =
                         <<[boosting EXCEPT !.pc = "to_csv"]>>]
         /\ UNCHANGED others_queue
    ELSE Ended_call(Call(boosting.found, <<to_boost(boosting)>>, outcome,
                         queue.file, queue.file))

BoostStatusReblog(outcome) ==
    /\ queue.boosting # <<>>
    /\ queue.boosting[1].pc = "status_reblog"
    /\ StatusReblog(queue.boosting[1], outcome)

\* api.py:206-207: the rows read at api.py:197, but for the first, are
\* written over the file
ToCsv(boosting) ==
    /\ queue' = [queue EXCEPT
           !.file = to_csv(rest_to_boost(boosting.to_boost_df[1])),
           !.calls = Append(@, Call(boosting.found, <<to_boost(boosting)>>,
                                    "", queue.file,
                                    to_csv(rest_to_boost(
                                        boosting.to_boost_df[1])))),
           !.boosting = <<>>]
    /\ UNCHANGED others_queue

BoostToCsv ==
    /\ queue.boosting # <<>>
    /\ queue.boosting[1].pc = "to_csv"
    /\ ToCsv(queue.boosting[1])

InitQueue ==
    /\ scorer = <<>>
    /\ posts = <<>>
    /\ scored = <<>>
    /\ selected = NothingSelected
    /\ NoPipeline /\ NoFetching /\ NoStartup
    /\ \E state \in {"missing", "blank"} :
           queue = Queue(File(state, <<>>), File(state, <<>>), <<>>, <<>>,
                         <<>>)

NextQueue ==
    \/ \E context_posts \in Contexts : BuildBoostFile(context_posts)
    \/ BoostTootFromFile
    \/ \E outcome \in StatusReblogOutcomes : BoostStatusReblog(outcome)
    \/ BoostToCsv

SpecQueue == InitQueue /\ [][NextQueue]_vars

(***************************************************************************)
(* C22                                                                     *)
(***************************************************************************)
\* the toots that have an entry in a queue file
Entries(file) == {file.rows[i].toot_id : i \in DOMAIN file.rows}

C22_Queued(built, written) ==
    /\ Ids(built.posts) \subseteq Entries(written)
    /\ Entries(built.found) \subseteq Entries(written)

\* C22: after build_boost_file returns, every post of context['posts'] has
\* an entry in the queue file and every entry the file held before the call
\* is still there, whether or not a file existed and whatever its length.
C22_AllQueued ==
    queue.built # <<>> => C22_Queued(queue.built[1], queue.base)

(***************************************************************************)
(* C21                                                                     *)
(***************************************************************************)
\* the toots re-shared by a sequence of calls, in the order of the calls: a
\* request that raised re-shared nothing
RECURSIVE Reshared(_)
Reshared(calls) ==
    IF calls = <<>> THEN <<>>
    ELSE (IF Head(calls).raised = "" THEN Head(calls).status_reblog ELSE <<>>)
         \o Reshared(Tail(calls))

\* one call: on a queue with entries it asks for the first to be re-shared
\* and, the request granted, leaves the file with the other entries in
\* their order (a request the server refuses leaves the entry for the next
\* call); on a missing or empty queue it re-shares nothing and leaves the
\* file as it was
C21_Call(c) ==
    IF c.found.state = "table" /\ c.found.rows # <<>>
    THEN /\ c.status_reblog = <<c.found.rows[1].toot_id>>
         /\ IF c.raised = ""
            THEN /\ c.before.state = "table" /\ c.before.rows # <<>>
                 /\ c.before.rows[1].toot_id = c.found.rows[1].toot_id
                 /\ c.left = File("table", Tail(c.before.rows))
            ELSE c.left = c.before
    ELSE /\ c.status_reblog = <<>>
         /\ c.left = c.found

\* a sequence of calls: the toots re-shared are the first entries of the
\* queue, each once and in the order of the queue, and the file holds the
\* entries after them
C21_Consumed(base, file, reshared) ==
    /\ Len(reshared) <= Len(base.rows)
    /\ \A i \in DOMAIN reshared : reshared[i] = base.rows[i].toot_id
    /\ file = File(base.state,
                   SubSeq(base.rows, Len(reshared) + 1, Len(base.rows)))

\* C21: each call of boost_toot_from_file on a queue with entries re-shares
\* exactly the first entry and rewrites the file without it, the other
\* entries in the same order; over any sequence of calls no entry is
\* re-shared twice and none is skipped; a call on a missing or empty queue
\* re-shares nothing and leaves the file unchanged.  A call whose request
\* the server refuses is not held against the statement: it leaves the
\* entry at the head of the queue.
C21_FirstInFirstOut ==
    /\ \A k \in DOMAIN queue.calls : C21_Call(queue.calls[k])
    /\ C21_Consumed(queue.base, queue.file, Reshared(queue.calls))

====
